---- MODULE Spec2Model ----
(***************************************************************************)
(* talon: the watch loop of the REPL (ui/repl.py, TalonREPL._watch), the   *)
(* Falcon API client it drives (api/client.py, FalconClient) and the local *)
(* alert cache it writes (database/alerts_db.py, AlertsDB).                *)
(*                                                                         *)
(* Text is a sequence of one-character strings, so that substring tests,   *)
(* str.find and case folding are computed as Python computes them.         *)
(* An ISO-8601 timestamp string is [s, f, ok]: s whole seconds, f the      *)
(* fractional digit (0: the string has no fractional part, "..:SSZ"),      *)
(* ok = FALSE: text that datetime.fromisoformat rejects.  [s=0,f=0] is the *)
(* absent/empty timestamp (None or "", both falsy in Python).              *)
(***************************************************************************)
EXTENDS Integers, Sequences, FiniteSets, TLC

----------------------------------------------------------------------------
(* Bounds of the model *)

\* pages one query_alert_ids call reads at most
ListOnlyMaxPages == 3
MaxPages == 2
\* records in one fetch response at most
MaxChunkRecs == 1
\* consecutive 429 answers to one list page at most
Max429 == 1
\* watch sessions started at most
MaxSessions == 1
MaxSessionsExact == 2
\* calls made in the specifications of one component on its own
MaxStoreOps == 3

\* ids per bulk request, 500 in range(0, len(ids), 500), scaled down: inside
\* a watch session, and when fetch_alerts is called on its own
ChunkSize == 1
FetchOnlyChunkSize == 2
\* limit of query_alert_ids, 5000 in the code, scaled down: ids per page
PageLimit == 1

\* time.sleep(5) of the watch loop's RequestException handler
BackoffSleep == 5
\* the "2" of int(r.headers.get("Retry-After", "2")) or 2
DefaultRetryAfter == 2

----------------------------------------------------------------------------
(* Text *)

LowerLetters == <<"a", "b", "d", "e", "n", "o", "r", "w">>
UpperLetters == <<"A", "B", "D", "E", "N", "O", "R", "W">>

\* str.upper() on one character
UpperChar(c) ==
  IF \E i \in 1..Len(LowerLetters) : LowerLetters[i] = c
  THEN UpperLetters[CHOOSE i \in 1..Len(LowerLetters) : LowerLetters[i] = c]
  ELSE c

\* str.lower() on one character
LowerChar(c) ==
  IF \E i \in 1..Len(UpperLetters) : UpperLetters[i] = c
  THEN LowerLetters[CHOOSE i \in 1..Len(UpperLetters) : UpperLetters[i] = c]
  ELSE c

Upper(t) == [i \in 1..Len(t) |-> UpperChar(t[i])]
Lower(t) == [i \in 1..Len(t) |-> LowerChar(t[i])]

\* Python's "p in t" on strings
Contains(t, p) ==
  \E i \in 1..(Len(t) - Len(p) + 1) : SubSeq(t, i, i + Len(p) - 1) = p

\* Python's t.find(p): index (from 1 here) of the first occurrence, 0 if none
Find(t, p) ==
  IF Contains(t, p)
  THEN CHOOSE i \in 1..(Len(t) - Len(p) + 1) :
         /\ SubSeq(t, i, i + Len(p) - 1) = p
         /\ \A j \in 1..(i - 1) : SubSeq(t, j, j + Len(p) - 1) # p
  ELSE 0

\* t[i:] with i counted from 1
Suffix(t, i) == SubSeq(t, i, Len(t))

----------------------------------------------------------------------------
(* JSON field values of a vendor record *)

Absent == [k |-> "absent", s |-> <<>>, n |-> 0]
Null == [k |-> "null", s |-> <<>>, n |-> 0]
Str(t) == [k |-> "str", s |-> t, n |-> 0]
Num(i) == [k |-> "int", s |-> <<>>, n |-> i]

\* Python truthiness of a field value
Truthy(v) ==
  \/ v.k = "str" /\ v.s # <<>>
  \/ v.k = "int" /\ v.n # 0

Digits == <<"0", "1", "2", "3", "4", "5", "6", "7", "8", "9">>
IsDigit(c) == \E i \in 1..10 : Digits[i] = c
DigitVal(c) == (CHOOSE i \in 1..10 : Digits[i] = c) - 1

RECURSIVE ParseNat(_)
ParseNat(t) ==
  IF t = <<>> THEN 0
  ELSE 10 * ParseNat(SubSeq(t, 1, Len(t) - 1)) + DigitVal(t[Len(t)])

\* str(v) for a value that is present
StrOf(v) ==
  CASE v.k = "str" -> v.s
    [] v.k = "null" -> <<"N", "o", "n", "e">>
    [] OTHER -> <<>>

----------------------------------------------------------------------------
(* Timestamps *)

NoTs == [s |-> 0, f |-> 0, ok |-> TRUE]
Ts(sec, frac) == [s |-> sec, f |-> frac, ok |-> TRUE]
BadTs == [s |-> 9, f |-> 0, ok |-> FALSE]

\* truthiness of a timestamp string: None and "" are falsy
HasTs(t) == t # NoTs

\* Python's string order on timestamp strings.  Same width up to the
\* seconds; then "Z" (0x5A) against "." (0x2E): the string with a fractional
\* part is the smaller one.  Text that is no timestamp sorts after digits.
StrLess(a, b) ==
  IF ~a.ok \/ ~b.ok THEN a.ok /\ ~b.ok
  ELSE \/ a.s < b.s
       \/ a.s = b.s /\ a.f # 0 /\ (b.f = 0 \/ a.f < b.f)

\* the instant a well-formed timestamp string denotes, in tenths of a second
Instant(t) == 10 * t.s + t.f

\* utils/time_helpers.py fql_time: microseconds dropped, "Z" suffix
fql_time(tenths) == Ts(tenths \div 10, 0)

\* utils/time_helpers.py pick_created_iso
pick_created_iso(a) ==
  IF HasTs(a.created_timestamp) THEN a.created_timestamp
  ELSE IF HasTs(a.timestamp) THEN a.timestamp
  ELSE a.updated_timestamp

----------------------------------------------------------------------------
(* Identifiers *)

IND == <<":", "i", "n", "d", ":">>
DET == <<":", "d", "e", "t", ":">>
UnknownId == <<"u", "n", "k", "n", "o", "w", "n", "-", "i", "d">>

\* a display id that drops the marker as well
DisplayIdAfterMarker(aid_full) ==
  IF Contains(aid_full, IND)
  THEN Suffix(aid_full, Find(aid_full, IND) + Len(IND))
  ELSE IF Contains(aid_full, DET)
  THEN Suffix(aid_full, Find(aid_full, DET) + Len(DET))
  ELSE aid_full

\* repl.py 492-497: the display id of a full identifier
DisplayId(aid_full) ==
  IF Contains(aid_full, IND)
  THEN Suffix(aid_full, Find(aid_full, Suffix(IND, 2)))
  ELSE IF Contains(aid_full, DET)
  THEN Suffix(aid_full, Find(aid_full, Suffix(DET, 2)))
  ELSE aid_full

\* repl.py 491: a.get("composite_id") or a.get("id") or "unknown-id"
FullId(a) ==
  IF Truthy(a.composite_id) THEN a.composite_id.s
  ELSE IF Truthy(a.id) THEN a.id.s
  ELSE UnknownId

----------------------------------------------------------------------------
(* The vendor records of the model *)

IdA == <<"c", ":", "i", "n", "d", ":", "1">>
IdB == <<"e", ":", "i", "n", "d", ":", "1">>
IdC == <<"c", ":", "d", "e", "t", ":", "2">>
IdE == <<"c", ":", "i", "n", "d", ":", "3">>

BlankAlert ==
  [composite_id |-> Absent, id |-> Absent, name |-> Absent,
   description |-> Absent, severity |-> Absent, status |-> Absent,
   product |-> Absent, hostname |-> Absent,
   created_timestamp |-> NoTs, timestamp |-> NoTs, updated_timestamp |-> NoTs]

\* severity 70, product EDR, host web, created "..:02Z"
AlertA ==
  [BlankAlert EXCEPT !.composite_id = Str(IdA), !.severity = Num(70),
     !.product = Str(<<"E", "D", "R">>), !.hostname = Str(<<"w", "e", "b">>),
     !.name = Str(<<"b", "a", "d">>), !.created_timestamp = Ts(2, 0)]
\* same display id as AlertA under another customer prefix, created "..:02.5Z"
AlertB ==
  [BlankAlert EXCEPT !.composite_id = Str(IdB), !.severity = Num(30),
     !.product = Str(<<"e", "d", "r">>), !.created_timestamp = Ts(2, 5)]
\* a detection, identifier only in "id", severity null, created in the same
\* second as AlertA
AlertC ==
  [BlankAlert EXCEPT !.id = Str(IdC), !.severity = Null,
     !.created_timestamp = Ts(2, 0), !.updated_timestamp = Ts(3, 0)]
\* no identifier and no created_timestamp: only the "timestamp" fallback
AlertD ==
  [BlankAlert EXCEPT !.severity = Str(<<"7", "0">>), !.timestamp = Ts(1, 5)]
\* a created_timestamp that datetime.fromisoformat rejects
AlertE ==
  [BlankAlert EXCEPT !.composite_id = Str(IdE), !.severity = Num(90),
     !.created_timestamp = BadTs]

Alerts == {AlertA, AlertB, AlertC, AlertD, AlertE}

----------------------------------------------------------------------------
(* AlertFilter and matches_filter (config/settings.py 85-115) *)

NoFilter ==
  [severity_min |-> <<>>, product |-> <<>>, hostname |-> <<>>,
   status |-> <<>>, keywords |-> <<>>]

\* int(x) of Python: "ok" with a value, or the exception raised
IntOf(v) ==
  CASE v.k = "int" -> [r |-> "ok", n |-> v.n]
    [] v.k = "absent" -> [r |-> "ok", n |-> 0]
    [] v.k = "null" -> [r |-> "TypeError", n |-> 0]
    [] OTHER ->
         IF v.s # <<>> /\ \A i \in 1..Len(v.s) : IsDigit(v.s[i])
         THEN [r |-> "ok", n |-> ParseNat(v.s)]
         ELSE [r |-> "ValueError", n |-> 0]

\* alert.get(key, "") rendered by str() / an f-string
TextOf(v) == IF v.k = "absent" THEN <<>> ELSE StrOf(v)

\* a matches_filter that also compares the status option with the record
matches_filter_by_status(alert, filter_obj) ==
  IF /\ filter_obj.status # <<>>
     /\ ~Contains(Lower(TextOf(alert.status)), Lower(filter_obj.status))
  THEN "false"
  ELSE LET sev == IntOf(alert.severity)
           sevFails == /\ filter_obj.severity_min # <<>>
                       /\ sev.r = "ok"
                       /\ sev.n < filter_obj.severity_min[1]
           prodFails == /\ filter_obj.product # <<>>
                        /\ ~Contains(Upper(TextOf(alert.product)),
                                     Upper(filter_obj.product))
       IN  IF sevFails \/ prodFails THEN "false" ELSE "true"

\* "true", "false", or "raise" when an exception leaves matches_filter
matches_filter(alert, filter_obj) ==
  LET sev == IntOf(alert.severity)
      sevFails == /\ filter_obj.severity_min # <<>>
                  /\ sev.r = "ok"
                  /\ sev.n < filter_obj.severity_min[1]
      sevRaises == filter_obj.severity_min # <<>> /\ sev.r = "TypeError"
      prodFails == /\ filter_obj.product # <<>>
                   /\ ~Contains(Upper(TextOf(alert.product)),
                                Upper(filter_obj.product))
      hostRaises == filter_obj.hostname # <<>> /\ alert.hostname.k = "null"
      hostFails == /\ filter_obj.hostname # <<>>
                   /\ ~Contains(Lower(TextOf(alert.hostname)),
                                Lower(filter_obj.hostname))
      text == Lower(TextOf(alert.name) \o <<" ">> \o TextOf(alert.description))
      kwFails == /\ filter_obj.keywords # <<>>
                 /\ ~\E i \in 1..Len(filter_obj.keywords) :
                       Contains(text, Lower(filter_obj.keywords[i]))
  IN  IF sevRaises THEN "raise"
      ELSE IF sevFails THEN "false"
      ELSE IF prodFails THEN "false"
      ELSE IF hostRaises THEN "raise"
      ELSE IF hostFails THEN "false"
      ELSE IF kwFails THEN "false"
      ELSE "true"

----------------------------------------------------------------------------
(* AlertStats (models/filters.py 28-53) *)

RECURSIVE NatToStr(_)
NatToStr(i) ==
  IF i < 10 THEN <<Digits[i + 1]>>
  ELSE NatToStr(i \div 10) \o <<Digits[(i % 10) + 1]>>

\* str(alert.get(key, "unknown"))
StatKey(v) ==
  CASE v.k = "absent" -> <<"u", "n", "k", "n", "o", "w", "n">>
    [] v.k = "int" -> NatToStr(v.n)
    [] OTHER -> StrOf(v)

\* d[k] = d.get(k, 0) + 1
Bump(d, key) ==
  IF key \in DOMAIN d THEN [d EXCEPT ![key] = @ + 1] ELSE d @@ (key :> 1)

EmptyStats ==
  [total_alerts |-> 0, alerts_by_severity |-> <<>>, alerts_by_product |-> <<>>]

\* statistics that count every record twice in the total
add_alert_twice(st, alert) ==
  [total_alerts |-> st.total_alerts + 2,
   alerts_by_severity |-> Bump(st.alerts_by_severity, StatKey(alert.severity)),
   alerts_by_product |-> Bump(st.alerts_by_product, StatKey(alert.product))]

add_alert(st, alert) ==
  [total_alerts |-> st.total_alerts + 1,
   alerts_by_severity |-> Bump(st.alerts_by_severity, StatKey(alert.severity)),
   alerts_by_product |-> Bump(st.alerts_by_product, StatKey(alert.product))]

----------------------------------------------------------------------------
(* JSON text of a record: json.dumps and json.loads (alerts_db.py 83, 104, *)
(* 267, 270).  The text of a record is kept key by key; <<>> stands for a  *)
(* key the object does not have.                                           *)

Quote == <<"\"">>
NullText == <<"n", "u", "l", "l">>
BadText == <<"b", "a", "d">>

\* json.dumps of a field value
dumps_value(v) ==
  CASE v.k = "absent" -> <<>>
    [] v.k = "null" -> NullText
    [] v.k = "int" -> NatToStr(v.n)
    [] OTHER -> Quote \o v.s \o Quote

\* json.loads of the text of a field value
loads_value(t) ==
  IF t = <<>> THEN Absent
  ELSE IF t[1] = Quote[1] THEN Str(SubSeq(t, 2, Len(t) - 1))
  ELSE IF t = NullText THEN Null
  ELSE Num(ParseNat(t))

\* the timestamp string a model timestamp stands for: seconds, a fraction
\* where there is one, "Z"
IsoText(t) ==
  IF ~t.ok THEN BadText
  ELSE NatToStr(t.s) \o (IF t.f = 0 THEN <<>> ELSE <<".">> \o NatToStr(t.f))
         \o <<"Z">>

\* the model timestamp of a timestamp string
IsoValue(x) ==
  IF x = BadText THEN BadTs
  ELSE IF Contains(x, <<".">>)
  THEN Ts(ParseNat(SubSeq(x, 1, Find(x, <<".">>) - 1)),
          ParseNat(SubSeq(x, Find(x, <<".">>) + 1, Len(x) - 1)))
  ELSE Ts(ParseNat(SubSeq(x, 1, Len(x) - 1)), 0)

\* a reader that drops the fraction of a second
loads_ts_whole(x) ==
  IF x = <<>> THEN NoTs
  ELSE LET t == IsoValue(SubSeq(x, 2, Len(x) - 1))
       IN  IF t.ok THEN Ts(t.s, 0) ELSE t

dumps_ts(t) == IF t = NoTs THEN <<>> ELSE Quote \o IsoText(t) \o Quote
loads_ts(x) == IF x = <<>> THEN NoTs ELSE IsoValue(SubSeq(x, 2, Len(x) - 1))

TsKeys == {"created_timestamp", "timestamp", "updated_timestamp"}

\* json.dumps(alert_data)
json_dumps(a) ==
  [key \in DOMAIN a |->
     IF key \in TsKeys THEN dumps_ts(a[key]) ELSE dumps_value(a[key])]

\* json.loads(raw_data)
json_loads(raw) ==
  [key \in DOMAIN raw |->
     IF key \in TsKeys THEN loads_ts(raw[key]) ELSE loads_value(raw[key])]

----------------------------------------------------------------------------
(* AlertsDB (database/alerts_db.py): the alerts table as a set of rows.   *)
(* The column first_seen (DEFAULT CURRENT_TIMESTAMP) is written by no     *)
(* statement and read by none; it is not part of a row here.              *)

Row(alert_data, short_id, full_id) ==
  [id |-> short_id, short_id |-> short_id, full_id |-> full_id,
   name |-> alert_data.name, description |-> alert_data.description,
   severity |-> alert_data.severity, status |-> alert_data.status,
   product |-> alert_data.product, hostname |-> alert_data.hostname,
   created_timestamp |-> alert_data.created_timestamp,
   updated_timestamp |-> alert_data.updated_timestamp,
   raw_data |-> json_dumps(alert_data)]

\* INSERT OR REPLACE: the rows that conflict with the new one on the primary
\* key (id) or on UNIQUE(full_id) are deleted, then the row is inserted
InsertOrReplace(table, row) ==
  {r \in table : r.id # row.id /\ r.full_id # row.full_id} \cup {row}

\* store_alert whose existence check runs after the write
store_alert_check_late(table, alert_data, short_id, full_id) ==
  [table |-> InsertOrReplace(table, Row(alert_data, short_id, full_id)),
   is_new |-> FALSE]

\* store_alert: the new table and the boolean it returns
store_alert(table, alert_data, short_id, full_id) ==
  [table |-> InsertOrReplace(table, Row(alert_data, short_id, full_id)),
   is_new |-> ~\E r \in table : r.full_id = full_id]

----------------------------------------------------------------------------
(* State *)

VARIABLES
  pc,                \* where the shell / watch loop / client stands
  exit,              \* how the last watch session ended
  sessions,          \* watch sessions started so far
  apiMode,           \* what the vendor API may answer (fixed by Init)
  alert_filter,      \* TalonState.alert_filter
  since,             \* last_created_iso, the created-after cursor
  seen,              \* seen_ids
  emitted,           \* lines printed by the running / last session, in order
  ids,               \* ids accumulated by query_alert_ids, then the de-duped list
  alerts,            \* out of fetch_alerts, then the sorted list being processed
  idx,               \* position of the for loop in alerts
  max_created_seen,  \* high-water mark of the iteration (NoTs: None)
  offset,            \* params["offset"] of query_alert_ids
  chunk_i,           \* i of fetch_alerts: ids already sent in earlier chunks
  reqs,              \* HTTP exchanges of the running client call, in order
  db,                \* rows of the alerts table
  alert_id_cache,    \* TalonREPL.alert_id_cache: display id -> full id
  alert_stats,       \* TalonState.alert_stats
  new_alerts_count,  \* TalonREPL.new_alerts_count
  reported,          \* count printed by the latest "Added n new detections"
  calls,             \* one-component specifications: the calls made so far
  tok,               \* FalconClient._tok (Null: None)
  exp,               \* FalconClient._exp
  auth_header,       \* sess.headers["Authorization"] (Absent: not set)
  now,               \* time.time(), in seconds
  connected,         \* TalonState.connected
  connections,       \* TalonState.connections
  active_id,         \* TalonState.active_id (Null: None)
  poll_interval,     \* TalonState.poll_interval
  client,            \* TalonState.client: <<>> (None) or <<the client's fields>>
  spinners           \* the TqdmSpinner objects made by connect, oldest first

vars ==
  <<pc, exit, sessions, apiMode, alert_filter, since, seen, emitted, ids,
    alerts, idx, max_created_seen, offset, chunk_i, reqs, db,
    alert_id_cache, alert_stats, new_alerts_count, reported, calls,
    tok, exp, auth_header, now, connected, connections, active_id,
    poll_interval, client, spinners>>

\* the connection profiles, the poll interval and the client of the shell
\* (config/settings.py 16-20), and the spinners of its connect commands
configVars == <<connections, active_id, poll_interval, client, spinners>>

\* the token state of the client, the clock and the connected flag
authVars == <<tok, exp, auth_header, now, connected>>

sessionVars == <<exit, sessions, apiMode, alert_filter>>

SeqsUpTo(S, n) == UNION {[1..k -> S] : k \in 0..n}

Min(a, b) == IF a < b THEN a ELSE b

\* the filters a session may run under
SevMin50 == [NoFilter EXCEPT !.severity_min = <<50>>]
Filters == {NoFilter, SevMin50}

\* config/settings.py 19 and 81: the poll interval without a configuration
DefaultPollInterval == 15
\* is_token_valid, client.py 35: the margin before expiry, in seconds
TokenSkew == 60
\* client.py 55: js.get("expires_in", 1800)
DefaultExpiresIn == 1800
\* time.time() when the shell starts, and the latest time followed
StartTime == 1000

\* access tokens the token endpoint may hand out
TokenA == <<"A">>
TokenB == <<"B">>

\* a connection entry of config.json as save_config writes it (settings.py
\* 44-50), and the Connection load_config builds from it (71-77)
GoodDate == <<"1", "Z">>
EntryA ==
  [id |-> Str(<<"a">>), client_id |-> Str(<<"i">>),
   client_secret |-> Str(<<"s">>), base_url |-> Str(<<"u">>),
   created_at |-> Str(GoodDate)]
Connection(e) ==
  [id |-> e.id, client_id |-> e.client_id, client_secret |-> e.client_secret,
   base_url |-> e.base_url, created_at |-> e.created_at.s]

\* FalconClient(conn.base_url, conn.client_id, conn.client_secret) as the
\* value of TalonState.client (client.py 20-26, repl.py 421)
ClientFor(conn) ==
  <<[base_url |-> conn.base_url, client_id |-> conn.client_id,
     client_secret |-> conn.client_secret]>>

\* client.py 59: f"Bearer {token}"
Bearer(v) == Str(<<"B", "e", "a", "r", "e", "r", " ">> \o StrOf(v))

\* now_utc() - lookback, in tenths of a second, at the start of a session
StartTenths == {15}

\* the shell at its prompt, no watch session begun
WatchIdle(mode) ==
  /\ pc = "idle"
  /\ exit = "none"
  /\ sessions = 0
  /\ apiMode = mode
  /\ alert_filter \in Filters
  /\ since = NoTs
  /\ seen = {}
  /\ emitted = <<>>
  /\ ids = <<>>
  /\ alerts = <<>>
  /\ idx = 0
  /\ max_created_seen = NoTs
  /\ offset = 0
  /\ chunk_i = 0
  /\ reqs = <<>>
  /\ db = {}
  /\ alert_id_cache = <<>>
  /\ alert_stats = EmptyStats
  /\ new_alerts_count = 0
  /\ reported = 0
  /\ calls = <<>>
  /\ poll_interval = DefaultPollInterval

\* client.py 21-30 and the shell before any connect: no token, not connected
FreshClient ==
  /\ tok = Null
  /\ exp = 0
  /\ auth_header = Absent
  /\ now = StartTime
  /\ connected = FALSE
  /\ connections = <<>>
  /\ active_id = Null
  /\ client = <<>>
  /\ spinners = <<>>

\* the state a successful connect leaves (client.py 57-59, repl.py 444): a
\* token with the default lifetime, attached as bearer, and connected set
AfterConnect ==
  /\ tok = Str(TokenA)
  /\ exp = StartTime + DefaultExpiresIn
  /\ auth_header = Bearer(Str(TokenA))
  /\ now = StartTime
  /\ connected = TRUE
  /\ connections = <<Connection(EntryA)>>
  /\ active_id = EntryA.id
  /\ client = ClientFor(Connection(EntryA))
  /\ spinners = <<>>

\* the watch loop is studied from a connected shell
InitWith(mode) == WatchIdle(mode) /\ AfterConnect

Init == InitWith("any")

\* the client is studied from its construction
InitFresh == WatchIdle("any") /\ FreshClient

----------------------------------------------------------------------------
(* The vendor API *)

\* the id the query endpoint lists for a record
IdD == <<"x">>
ApiId(a) == IF FullId(a) = UnknownId THEN IdD ELSE FullId(a)
ListedIds == {ApiId(a) : a \in Alerts}

\* what a Retry-After header may hold: absent, "0", "3"
RetryAfterValues == {<<>>, <<0>>, <<3>>}

\* a client that always sleeps the default and never reads the header
RetrySleepIgnoresHeader(h) == DefaultRetryAfter

\* client.py 87 / 130: int(r.headers.get("Retry-After", "2")) or 2
RetrySleep(h) ==
  IF h = <<>> THEN DefaultRetryAfter
  ELSE IF h[1] = 0 THEN DefaultRetryAfter ELSE h[1]

\* records matching created_timestamp:>'since' (the FQL filter of the query)
CreatedAfter(t) ==
  {a \in Alerts : /\ HasTs(a.created_timestamp) /\ a.created_timestamp.ok
                  /\ Instant(a.created_timestamp) > Instant(t)}

\* the matching records in sort=created_timestamp.asc order, as ids
RECURSIVE AscIds(_)
AscIds(S) ==
  IF S = {} THEN <<>>
  ELSE LET a == CHOOSE x \in S : \A y \in S :
                  Instant(x.created_timestamp) <= Instant(y.created_timestamp)
       IN  <<ApiId(a)>> \o AscIds(S \ {a})

\* pages of one query_alert_ids call at most: called on its own the call is
\* followed over more pages than inside a watch session
PagesMax == IF sessions = 0 THEN ListOnlyMaxPages ELSE MaxPages

\* meta.pagination of a page: offset echoed, limit and total as the API says
MetaChoices(resources) ==
  {[offset |-> offset, limit |-> PageLimit, total |-> t] :
     t \in 0..(PagesMax * PageLimit)}
  \cup {[offset |-> 0, limit |-> Len(resources), total |-> Len(resources)]}

\* the pages the query endpoint may answer with, by apiMode:
\*   "any"      any ids, any pagination
\*   "filtered" any ids of records matching the filter, any pagination
\*   "exact"    exactly the matching ids in ascending order, cut into pages of
\*              any size
ListResponses ==
  CASE apiMode = "any" ->
         {[resources |-> r, meta |-> m] :
            r \in SeqsUpTo(ListedIds, PageLimit), m \in MetaChoices(<<>>)}
         \cup {[resources |-> r,
                meta |-> [offset |-> 0, limit |-> Len(r), total |-> Len(r)]] :
                 r \in SeqsUpTo(ListedIds, PageLimit)}
    [] apiMode = "filtered" ->
         {[resources |-> r, meta |-> m] :
            r \in SeqsUpTo({ApiId(a) : a \in CreatedAfter(since)}, PageLimit),
            m \in MetaChoices(<<>>)}
    [] OTHER ->
         LET all == AscIds(CreatedAfter(since))
             left == Len(all) - offset
         IN  {[resources |-> SubSeq(all, offset + 1, offset + k),
               meta |-> [offset |-> offset, limit |-> k, total |-> Len(all)]] :
                k \in (IF left > 0 THEN 1 ELSE 0)..Min(left, PageLimit)}

\* the records a bulk fetch of chunk may answer with, by apiMode
FetchResponses(chunk) ==
  LET asked == {a \in Alerts : \E j \in 1..Len(chunk) : chunk[j] = ApiId(a)}
  IN  CASE apiMode = "any" -> SeqsUpTo(Alerts, MaxChunkRecs)
        [] apiMode = "filtered" -> SeqsUpTo(asked, MaxChunkRecs)
        [] OTHER ->
             {[j \in 1..Len(chunk) |->
                 CHOOSE a \in Alerts : ApiId(a) = chunk[j]]}

----------------------------------------------------------------------------
(* FalconClient.query_alert_ids and fetch_alerts, one HTTP exchange a step *)

\* one request and its answer: attempt 1 is the first send of the page or
\* chunk, slept the seconds of the time.sleep that follows the answer, recs
\* and meta the resources and the meta.pagination of a 200 answer
Exchange(kind, off, chunk, attempt, status, h, slept) ==
  [kind |-> kind, offset |-> off, chunk |-> chunk, attempt |-> attempt,
   status |-> status, retry_after |-> h, slept |-> slept, recs |-> <<>>,
   meta |-> [offset |-> 0, limit |-> 0, total |-> 0]]

\* number of 429 answers at the end of the log
RECURSIVE Trailing429(_)
Trailing429(log) ==
  IF log = <<>> \/ log[Len(log)].status # 429 THEN 0
  ELSE 1 + Trailing429(SubSeq(log, 1, Len(log) - 1))

\* of a run of 429 answers to one page the log keeps the latest Max429
LogRetry(log, e) ==
  IF Trailing429(log) < Max429 THEN Append(log, e)
  ELSE SubSeq(log, 1, Len(log) - Max429)
         \o SubSeq(log, Len(log) - Max429 + 2, Len(log)) \o <<e>>

\* 1 for the first send of a page, 2.. for the sends after a 429 (the count
\* stops at Max429 + 1)
ListAttempt == 1 + Trailing429(reqs)
FetchAttempt == IF pc = "fetch_retry" THEN 2 ELSE 1

\* alerts.sort(key=lambda a: pick_created_iso(a) or ""): stable, string order
SortKey(a) == pick_created_iso(a)
RECURSIVE SortByCreated(_)
SortByCreated(sq) ==
  IF sq = <<>> THEN <<>>
  ELSE LET front == SortByCreated(SubSeq(sq, 1, Len(sq) - 1))
           x == sq[Len(sq)]
           n == Cardinality({j \in 1..Len(front) :
                               ~StrLess(SortKey(x), SortKey(front[j]))})
       IN  SubSeq(front, 1, n) \o <<x>> \o SubSeq(front, n + 1, Len(front))

\* ids[i : i + 500]
\* a slice that takes one id too many: ids[i : i + 501]
CurChunkOneMore ==
  SubSeq(ids, chunk_i + 1,
         Min(chunk_i + (IF sessions = 0 THEN FetchOnlyChunkSize ELSE ChunkSize) + 1,
             Len(ids)))

ChunkLen == IF sessions = 0 THEN FetchOnlyChunkSize ELSE ChunkSize
CurChunk == SubSeq(ids, chunk_i + 1, Min(chunk_i + ChunkLen, Len(ids)))

persistVars ==
  <<db, alert_id_cache, alert_stats, new_alerts_count, reported, calls, authVars, configVars>>

\* query_alert_ids is entered: params["offset"] = "0", ids = []
BeginQuery ==
  /\ pc' = "list"
  /\ ids' = <<>>
  /\ alerts' = <<>>
  /\ idx' = 0
  /\ max_created_seen' = NoTs
  /\ offset' = 0
  /\ chunk_i' = 0
  /\ reqs' = <<>>

\* a handler that also starts over with an empty seen_ids
ToBackoffForgets(e) ==
  /\ pc' = "backoff"
  /\ reqs' = <<e>>
  /\ ids' = <<>>
  /\ alerts' = <<>>
  /\ idx' = 0
  /\ max_created_seen' = NoTs
  /\ offset' = 0
  /\ chunk_i' = 0
  /\ seen' = {}
  /\ UNCHANGED <<since, emitted>>
  /\ UNCHANGED persistVars
  /\ UNCHANGED sessionVars

\* repl.py 592-594: except RequestException: print, time.sleep(5)
ToBackoff(e) ==
  /\ pc' = "backoff"
  /\ reqs' = <<e>>
  /\ ids' = <<>>
  /\ alerts' = <<>>
  /\ idx' = 0
  /\ max_created_seen' = NoTs
  /\ offset' = 0
  /\ chunk_i' = 0
  /\ UNCHANGED <<since, seen, emitted>>
  /\ UNCHANGED persistVars
  /\ UNCHANGED sessionVars

\* client.py 86-88: a list page answered 429: sleep, same page again
List429(h) ==
  /\ pc = "list"
  /\ reqs' = LogRetry(reqs, Exchange("list", offset, <<>>, ListAttempt, 429, h,
                                    RetrySleep(h)))
  /\ UNCHANGED <<pc, ids, alerts, idx, max_created_seen, offset, chunk_i>>
  /\ UNCHANGED <<since, seen, emitted>>
  /\ UNCHANGED persistVars
  /\ UNCHANGED sessionVars

\* client.py 90: raise_for_status on a list page (or the request failing)
ListError ==
  /\ pc = "list"
  /\ ToBackoff(Exchange("list", offset, <<>>, ListAttempt, 500, <<>>, BackoffSleep))

\* a client that moves on by the number of ids it received rather than by
\* the offset and limit the API reported
ListPageByCount(resp) ==
  /\ pc = "list"
  /\ LET e == [Exchange("list", offset, <<>>, ListAttempt, 200, <<>>, 0)
                 EXCEPT !.recs = resp.resources, !.meta = resp.meta]
         more == resp.meta.offset + resp.meta.limit < resp.meta.total
     IN  /\ ids' = ids \o resp.resources
         /\ IF more
            THEN /\ offset' = offset + Len(resp.resources)
                 /\ reqs' = Append(reqs, e)
                 /\ UNCHANGED pc
            ELSE /\ offset' = 0
                 /\ reqs' = IF sessions = 0 THEN Append(reqs, e) ELSE <<>>
                 /\ pc' = "listed"
  /\ UNCHANGED <<alerts, idx, max_created_seen, chunk_i>>
  /\ UNCHANGED <<since, seen, emitted>>
  /\ UNCHANGED persistVars
  /\ UNCHANGED sessionVars

\* client.py 90-106: a page is read; after the last page query_alert_ids
\* returns ids.  The exchanges of a call made on its own stay on record after
\* it has returned; inside a watch session the record ends with the call.
ListPage(resp) ==
  /\ pc = "list"
  /\ LET e == [Exchange("list", offset, <<>>, ListAttempt, 200, <<>>, 0)
                 EXCEPT !.recs = resp.resources, !.meta = resp.meta]
         more == resp.meta.offset + resp.meta.limit < resp.meta.total
     IN  /\ ids' = ids \o resp.resources
         /\ IF more
            THEN /\ offset' = resp.meta.offset + resp.meta.limit
                 /\ reqs' = Append(reqs, e)
                 /\ UNCHANGED pc
            ELSE /\ offset' = 0
                 /\ reqs' = IF sessions = 0 THEN Append(reqs, e) ELSE <<>>
                 /\ pc' = "listed"
  /\ UNCHANGED <<alerts, idx, max_created_seen, chunk_i>>
  /\ UNCHANGED <<since, seen, emitted>>
  /\ UNCHANGED persistVars
  /\ UNCHANGED sessionVars

\* repl.py 479-483, 591: the ids are de-duplicated against seen_ids; the
\* fetch begins, or with no id left the loop sleeps
DedupeIds ==
  /\ pc = "listed"
  /\ sessions > 0
  /\ LET fresh == SelectSeq(ids, LAMBDA i : i \notin seen)
     IN  /\ ids' = fresh
         /\ pc' = IF fresh # <<>> THEN "fetch" ELSE "sleep"
  /\ UNCHANGED <<alerts, idx, max_created_seen, offset, chunk_i, reqs>>
  /\ UNCHANGED <<since, seen, emitted>>
  /\ UNCHANGED persistVars
  /\ UNCHANGED sessionVars

\* client.py 129-130: the first POST of a chunk answered 429: sleep
Fetch429(h) ==
  /\ pc = "fetch"
  /\ pc' = "fetch_retry"
  /\ reqs' = Append(reqs, Exchange("fetch", chunk_i, CurChunk, 1, 429, h, RetrySleep(h)))
  /\ UNCHANGED <<ids, alerts, idx, max_created_seen, offset, chunk_i>>
  /\ UNCHANGED <<since, seen, emitted>>
  /\ UNCHANGED persistVars
  /\ UNCHANGED sessionVars

\* a fetch that raises on the first 429 of a chunk as well
FetchErrorNoRetry(status) ==
  /\ pc \in {"fetch", "fetch_retry"}
  /\ ToBackoff(Exchange("fetch", chunk_i, CurChunk, FetchAttempt, status, <<>>,
                        BackoffSleep))

\* client.py 137: raise_for_status on the answer to the POST; after the one
\* retry a second 429 is raised like any other status
FetchError(status) ==
  /\ \/ pc = "fetch" /\ status # 429
     \/ pc = "fetch_retry"
  /\ ToBackoff(Exchange("fetch", chunk_i, CurChunk, FetchAttempt, status, <<>>, BackoffSleep))

\* client.py 139-144: a chunk is read; after the last chunk fetch_alerts
\* returns out.  The exchanges of a call made on its own stay on record after
\* it has returned; inside a watch session the record ends with the call.
FetchOK(recs) ==
  /\ pc \in {"fetch", "fetch_retry"}
  /\ LET out == alerts \o recs
         e == [Exchange("fetch", chunk_i, CurChunk, FetchAttempt, 200, <<>>, 0)
                 EXCEPT !.recs = recs]
     IN  /\ alerts' = out
         /\ IF chunk_i + ChunkLen < Len(ids)
            THEN /\ chunk_i' = chunk_i + ChunkLen
                 /\ pc' = "fetch"
                 /\ reqs' = Append(reqs, e)
            ELSE /\ chunk_i' = 0
                 /\ pc' = "fetched"
                 /\ reqs' = IF sessions = 0 THEN Append(reqs, e) ELSE <<>>
  /\ UNCHANGED <<ids, idx, max_created_seen, offset>>
  /\ UNCHANGED <<since, seen, emitted>>
  /\ UNCHANGED persistVars
  /\ UNCHANGED sessionVars

\* repl.py 484-490: the fetched records are sorted and the for loop begins
SortFetched ==
  /\ pc = "fetched"
  /\ sessions > 0
  /\ alerts' = SortByCreated(alerts)
  /\ idx' = 1
  /\ reqs' = <<>>
  /\ pc' = "loop"
  /\ UNCHANGED <<ids, max_created_seen, offset, chunk_i>>
  /\ UNCHANGED <<since, seen, emitted>>
  /\ UNCHANGED persistVars
  /\ UNCHANGED sessionVars

----------------------------------------------------------------------------
(* TalonREPL._watch *)

\* the record the for loop stands at
Cur == alerts[idx]
CurFull == FullId(Cur)
CurAid == DisplayId(CurFull)

\* self.alert_id_cache[aid] = aid_full
CachePut(cache, aid, aid_full) ==
  IF aid \in DOMAIN cache THEN [cache EXCEPT ![aid] = aid_full]
  ELSE cache @@ (aid :> aid_full)

\* fmt_ts(parse_iso_utc(created_iso)) raises for text that is no timestamp
ParseRaises(a) == HasTs(pick_created_iso(a)) /\ ~pick_created_iso(a).ok

clientLocals == <<ids, offset, chunk_i, reqs>>

\* the locals of _watch are gone once it returns
DropLocals ==
  /\ seen' = {}
  /\ ids' = <<>>
  /\ alerts' = <<>>
  /\ idx' = 0
  /\ max_created_seen' = NoTs
  /\ offset' = 0
  /\ chunk_i' = 0
  /\ reqs' = <<>>

\* repl.py 602-606: except Exception: print, time.sleep(2), return
ErrorExit ==
  /\ pc' = "idle"
  /\ exit' = "error"
  /\ DropLocals
  /\ UNCHANGED <<since, emitted, sessions, apiMode, alert_filter>>
  /\ UNCHANGED <<new_alerts_count, reported, calls, authVars, configVars>>

\* watch sessions followed: two, one after the other, where the API answers
\* exactly
SessionsMax == IF apiMode = "exact" THEN MaxSessionsExact ELSE MaxSessions

\* cmd_run / cmd_connect -> _watch, lines 466-478
StartWatch ==
  /\ pc = "idle"
  /\ sessions < SessionsMax
  /\ sessions' = sessions + 1
  /\ exit' = "none"
  /\ \E t \in StartTenths : since' = fql_time(t)
  /\ seen' = {}
  /\ emitted' = <<>>
  /\ BeginQuery
  /\ UNCHANGED <<apiMode, alert_filter>>
  /\ UNCHANGED persistVars

\* the loop without the test of line 500
NeverSeen(aid) == FALSE

\* line 500: aid in seen_ids
AlreadySeen(aid) == aid \in seen

\* lines 499-501: the record's display id is already in seen_ids
SkipSeen ==
  /\ pc = "loop" /\ idx <= Len(alerts)
  /\ AlreadySeen(CurAid)
  /\ alert_id_cache' = CachePut(alert_id_cache, CurAid, CurFull)
  /\ idx' = idx + 1
  /\ UNCHANGED <<pc, alerts, max_created_seen>>
  /\ UNCHANGED clientLocals
  /\ UNCHANGED <<since, seen, emitted>>
  /\ UNCHANGED <<db, alert_stats, new_alerts_count, reported, calls, authVars, configVars>>
  /\ UNCHANGED sessionVars

\* a filter step that marks the rejected record as seen
FilterRejectsMarksSeen ==
  /\ pc = "loop" /\ idx <= Len(alerts)
  /\ ~AlreadySeen(CurAid)
  /\ matches_filter(Cur, alert_filter) = "false"
  /\ alert_id_cache' = CachePut(alert_id_cache, CurAid, CurFull)
  /\ seen' = seen \cup {CurAid}
  /\ idx' = idx + 1
  /\ UNCHANGED <<pc, alerts, max_created_seen>>
  /\ UNCHANGED clientLocals
  /\ UNCHANGED <<since, emitted>>
  /\ UNCHANGED <<db, alert_stats, new_alerts_count, reported, calls, authVars, configVars>>
  /\ UNCHANGED sessionVars

\* lines 499-505: the record fails the filter
FilterRejects ==
  /\ pc = "loop" /\ idx <= Len(alerts)
  /\ ~AlreadySeen(CurAid)
  /\ matches_filter(Cur, alert_filter) = "false"
  /\ alert_id_cache' = CachePut(alert_id_cache, CurAid, CurFull)
  /\ idx' = idx + 1
  /\ UNCHANGED <<pc, alerts, max_created_seen>>
  /\ UNCHANGED clientLocals
  /\ UNCHANGED <<since, seen, emitted>>
  /\ UNCHANGED <<db, alert_stats, new_alerts_count, reported, calls, authVars, configVars>>
  /\ UNCHANGED sessionVars

\* lines 499-505: matches_filter raises (TypeError, AttributeError)
FilterRaises ==
  /\ pc = "loop" /\ idx <= Len(alerts)
  /\ ~AlreadySeen(CurAid)
  /\ matches_filter(Cur, alert_filter) = "raise"
  /\ alert_id_cache' = CachePut(alert_id_cache, CurAid, CurFull)
  /\ ErrorExit
  /\ UNCHANGED <<db, alert_stats>>

\* lines 499-511: the record is accepted, then its timestamp does not parse
TimestampRaises ==
  /\ pc = "loop" /\ idx <= Len(alerts)
  /\ ~AlreadySeen(CurAid)
  /\ matches_filter(Cur, alert_filter) = "true"
  /\ ParseRaises(Cur)
  /\ alert_id_cache' = CachePut(alert_id_cache, CurAid, CurFull)
  /\ alert_stats' = add_alert(alert_stats, Cur)
  /\ ErrorExit
  /\ UNCHANGED db

\* a loop that counts the record but prints nothing before the upsert
EmitSilent ==
  /\ pc = "loop" /\ idx <= Len(alerts)
  /\ ~AlreadySeen(CurAid)
  /\ matches_filter(Cur, alert_filter) = "true"
  /\ ~ParseRaises(Cur)
  /\ alert_id_cache' = CachePut(alert_id_cache, CurAid, CurFull)
  /\ alert_stats' = add_alert(alert_stats, Cur)
  /\ pc' = "store"
  /\ UNCHANGED <<alerts, idx, max_created_seen>>
  /\ UNCHANGED clientLocals
  /\ UNCHANGED <<since, seen, emitted>>
  /\ UNCHANGED <<db, new_alerts_count, reported, calls, authVars, configVars>>
  /\ UNCHANGED sessionVars

\* lines 499-563: the record is accepted, counted and printed
Emit ==
  /\ pc = "loop" /\ idx <= Len(alerts)
  /\ ~AlreadySeen(CurAid)
  /\ matches_filter(Cur, alert_filter) = "true"
  /\ ~ParseRaises(Cur)
  /\ alert_id_cache' = CachePut(alert_id_cache, CurAid, CurFull)
  /\ alert_stats' = add_alert(alert_stats, Cur)
  /\ emitted' = Append(emitted, [aid |-> CurAid, alert |-> Cur])
  /\ pc' = "store"
  /\ UNCHANGED <<alerts, idx, max_created_seen>>
  /\ UNCHANGED clientLocals
  /\ UNCHANGED <<since, seen>>
  /\ UNCHANGED <<db, new_alerts_count, reported, calls, authVars, configVars>>
  /\ UNCHANGED sessionVars

\* lines 566-568: store_alert returns
StoreOK ==
  /\ pc = "store"
  /\ LET res == store_alert(db, Cur, CurAid, CurFull)
     IN  /\ db' = res.table
         /\ new_alerts_count' =
              IF res.is_new THEN new_alerts_count + 1 ELSE new_alerts_count
  /\ pc' = "mark"
  /\ UNCHANGED <<alerts, idx, max_created_seen>>
  /\ UNCHANGED clientLocals
  /\ UNCHANGED <<since, seen, emitted>>
  /\ UNCHANGED <<alert_id_cache, alert_stats, reported, calls, authVars, configVars>>
  /\ UNCHANGED sessionVars

\* line 566: store_alert raises sqlite3.Error, which no handler inside the
\* loop catches
StoreFails ==
  /\ pc = "store"
  /\ ErrorExit
  /\ UNCHANGED <<db, alert_id_cache, alert_stats>>

\* lines 583-585: the iteration's high-water mark, by string comparison
MaxCreated(mx, created_iso) ==
  IF HasTs(created_iso) /\ (~HasTs(mx) \/ StrLess(mx, created_iso))
  THEN created_iso ELSE mx

\* lines 570-585: the log file is written (a failure is caught and printed),
\* the display id is added to seen_ids, the high-water mark is raised
Mark ==
  /\ pc = "mark"
  /\ seen' = seen \cup {CurAid}
  /\ max_created_seen' = MaxCreated(max_created_seen, pick_created_iso(Cur))
  /\ idx' = idx + 1
  /\ pc' = "loop"
  /\ UNCHANGED <<alerts>>
  /\ UNCHANGED clientLocals
  /\ UNCHANGED <<since, emitted>>
  /\ UNCHANGED persistVars
  /\ UNCHANGED sessionVars

\* lines 587-589 without the guard
AdvanceAlways(cursor, mx) == mx

\* lines 587-589: if max_created_seen: last_created_iso = max_created_seen
Advance(cursor, mx) == IF HasTs(mx) THEN mx ELSE cursor

\* lines 587-591: the for loop is over: advance the watermark, sleep
EndIteration ==
  /\ pc = "loop" /\ idx > Len(alerts)
  /\ since' = Advance(since, max_created_seen)
  /\ pc' = "sleep"
  /\ ids' = <<>>
  /\ alerts' = <<>>
  /\ idx' = 0
  /\ max_created_seen' = NoTs
  /\ UNCHANGED <<offset, chunk_i, reqs>>
  /\ UNCHANGED <<seen, emitted>>
  /\ UNCHANGED persistVars
  /\ UNCHANGED sessionVars

\* line 591 / 594 return: the next iteration calls query_alert_ids
Wake ==
  /\ pc \in {"sleep", "backoff"}
  /\ BeginQuery
  /\ UNCHANGED <<since, seen, emitted>>
  /\ UNCHANGED persistVars
  /\ UNCHANGED sessionVars

\* lines 595-601: KeyboardInterrupt anywhere in the loop
Cancel ==
  /\ pc \notin {"idle"}
  /\ pc' = "idle"
  /\ exit' = "interrupt"
  /\ reported' = IF new_alerts_count > 0 THEN new_alerts_count ELSE reported
  /\ new_alerts_count' = 0
  /\ DropLocals
  /\ UNCHANGED <<since, emitted, sessions, apiMode, alert_filter>>
  /\ UNCHANGED <<db, alert_id_cache, alert_stats, calls, authVars, configVars>>

NextHonest ==
  \/ StartWatch
  \/ \E h \in RetryAfterValues : List429(h)
  \/ ListError
  \/ \E resp \in ListResponses : ListPage(resp)
  \/ DedupeIds
  \/ \E h \in RetryAfterValues : Fetch429(h)
  \/ \E status \in {429, 500} : FetchError(status)
  \/ \E recs \in FetchResponses(CurChunk) : FetchOK(recs)
  \/ SortFetched
  \/ SkipSeen
  \/ FilterRejects
  \/ FilterRaises
  \/ Emit
  \/ StoreOK
  \/ StoreFails
  \/ Mark
  \/ EndIteration
  \/ Wake
  \/ Cancel

Next ==
  \/ NextHonest
  \/ TimestampRaises

\* the vendor API may answer with any ids and any records
Spec == Init /\ [][Next]_vars

\* the API honours the created-after filter of the query: every record it
\* returns carries a well-formed created_timestamp later than the cursor
SpecFiltered == InitWith("filtered") /\ [][NextHonest]_vars

\* the API lists exactly the records created after the cursor
SpecExact == InitWith("exact") /\ [][NextHonest]_vars

\* the client's requests are answered (timeout=60) and its loops go on to the
\* next request at once
ClientStep ==
  \/ \E h \in RetryAfterValues : List429(h)
  \/ ListError
  \/ \E resp \in ListResponses : ListPage(resp)
  \/ \E h \in RetryAfterValues : Fetch429(h)
  \/ \E status \in {429, 500} : FetchError(status)
  \/ \E recs \in FetchResponses(CurChunk) : FetchOK(recs)

\* Spec with every request of the client answered in the end
SpecLive == Init /\ [][Next]_vars /\ WF_vars(ClientStep)

----------------------------------------------------------------------------
(* The watch loop and the client: properties *)

ClientPhases == {"list", "fetch", "fetch_retry"}

\* the same request: same endpoint, same page offset / chunk position, same ids
SameRequest(e1, e2) ==
  e1.kind = e2.kind /\ e1.offset = e2.offset /\ e1.chunk = e2.chunk

C2_NoGap ==
  (alert_filter = NoFilter /\ (pc = "sleep" \/ exit = "error"))
    => \A a \in CreatedAfter(fql_time(15)) :
         Cardinality({i \in 1..Len(emitted) : emitted[i].alert = a}) = 1

\* C3: the lines printed in one watch session carry pairwise different
\* display ids
C3_NoDuplicateDisplayId ==
  \A i, j \in 1..Len(emitted) : emitted[i].aid = emitted[j].aid => i = j

\* one record came back twice from one fetch; the second copy was skipped
C3_Witness ==
  /\ pc = "loop"
  /\ Len(alerts) = 2
  /\ alerts[1] = alerts[2]
  /\ idx = 3
  /\ Len(emitted) = 1

\* C4: the poller enters the back-off only from a client call, with a sleep of
\* 5 seconds; no step of a client call, the failing one included, changes the
\* cursor, seen_ids, the printed lines or the table; from the back-off the
\* loop can always go on, and it goes on to a new query with the same state
C4_BackoffKeepsState ==
  /\ [](pc = "backoff" =>
          (Len(reqs) = 1 /\ reqs[1].slept = BackoffSleep /\ ENABLED Wake))
  /\ [][/\ (pc' = "backoff" /\ pc # "backoff") => pc \in ClientPhases
        /\ (pc \in ClientPhases /\ pc' # "idle")
             => UNCHANGED <<since, seen, emitted, db>>
        /\ (pc = "backoff" /\ pc' \notin {"backoff", "idle"})
             => (pc' = "list" /\ UNCHANGED <<since, seen, emitted, db>>)]_vars

\* a fetch has failed in an iteration that follows accepted records
C4_Witness ==
  /\ pc = "backoff"
  /\ reqs[1].kind = "fetch"
  /\ reqs[1].status = 500
  /\ seen # {}
  /\ db # {}

\* C5: a watch session that has returned to the prompt was cancelled
C5_OnlyCancelEnds == (pc = "idle" /\ sessions > 0) => exit = "interrupt"

\* C6: every 429 is followed by a sleep of at least the seconds of its
\* Retry-After header and then by the same request; a request that succeeds
\* after one 429 is not sent again; the step of the 429 leaves the cursor,
\* seen_ids and the request to send unchanged
C6_RetryAfter429 ==
  /\ [](\A i \in 1..Len(reqs) : reqs[i].status = 429 =>
          /\ reqs[i].slept > 0
          /\ reqs[i].retry_after # <<>>
               => reqs[i].slept >= reqs[i].retry_after[1]
          /\ i < Len(reqs) => SameRequest(reqs[i], reqs[i + 1])
          /\ (i + 1 < Len(reqs) /\ reqs[i + 1].status = 200)
               => ~SameRequest(reqs[i + 1], reqs[i + 2]))
  /\ [][(reqs' # reqs /\ reqs' # <<>> /\ reqs'[Len(reqs')].status = 429
           /\ pc' # "backoff")
          => /\ pc' \in {"list", "fetch_retry"}
             /\ UNCHANGED <<since, seen, ids, offset, chunk_i>>]_vars
  /\ [][pc = "fetch_retry" => pc' # "fetch_retry"]_vars

\* a list page answered 429 with Retry-After: 3 and then 200, after records
\* were accepted
C6_Witness ==
  /\ Len(reqs) = 2
  /\ reqs[1].status = 429
  /\ reqs[1].retry_after = <<3>>
  /\ reqs[1].slept = 3
  /\ reqs[2].status = 200
  /\ SameRequest(reqs[1], reqs[2])
  /\ seen # {}

\* C7 as stated: the poller is never in the back-off because of a 429
C7_Never429Backoff == pc = "backoff" => reqs[1].status # 429

\* C7: the poller is in the back-off because of a 429 only when the 429
\* answered the one retry of a fetch chunk; a 429 on a list page, and the
\* first 429 of a chunk, never get there
C7_OnlyRetry429Surfaces ==
  (pc = "backoff" /\ reqs[1].status = 429)
    => (reqs[1].kind = "fetch" /\ reqs[1].attempt = 2)

\* the retry of a chunk was answered 429 and the poller backs off
C7_Witness ==
  /\ pc = "backoff"
  /\ reqs[1].status = 429
  /\ reqs[1].kind = "fetch"

\* C8: query_alert_ids always returns or raises
C8_ListReturns == [](pc = "list" => <>(pc # "list"))

\* every entry of alert_id_cache and every row of the table carries the
\* identifier of a record as the record gave it, filed under its display id
FullIdsAsReceived ==
  /\ \A k \in DOMAIN alert_id_cache :
       /\ \E a \in Alerts : alert_id_cache[k] = FullId(a)
       /\ DisplayId(alert_id_cache[k]) = k
  /\ \A r \in db :
       /\ r.full_id = FullId(json_loads(r.raw_data))
       /\ r.id = DisplayId(r.full_id)

\* C12: the cache entries and the rows written by the watch loop hold full
\* identifiers as received, and an entry of the cache, once written, is never
\* given another full identifier
C12_CacheKeepsFullId ==
  /\ []FullIdsAsReceived
  /\ [][\A k \in DOMAIN alert_id_cache :
          k \in DOMAIN alert_id_cache'
            /\ alert_id_cache'[k] = alert_id_cache[k]]_vars

----------------------------------------------------------------------------
(* AlertsDB used on its own: store_alert and purge_alerts called with any  *)
(* arguments, as db_loop and a caller of the class can.                    *)

StoreShortIds == {DisplayId(IdA), DisplayId(IdC)}
StoreFullIds == {IdA, IdB, IdC}
StoreAlerts == {AlertA, AlertB}

watchVars ==
  <<pc, exit, sessions, apiMode, alert_filter, since, seen, emitted, ids,
    alerts, idx, max_created_seen, offset, chunk_i, reqs,
    alert_id_cache, alert_stats, new_alerts_count, reported, authVars, configVars>>

\* AlertsDB.store_alert(alert_data, short_id, full_id)
StoreCall(alert_data, short_id, full_id) ==
  /\ pc = "idle"
  /\ Len(calls) < MaxStoreOps
  /\ LET res == store_alert(db, alert_data, short_id, full_id)
     IN  /\ db' = res.table
         /\ calls' = Append(calls,
              [op |-> "store", alert |-> alert_data, short_id |-> short_id,
               full_id |-> full_id, ret |-> res.is_new, count |-> 0,
               before |-> db, after |-> res.table, arg |-> <<>>,
               out |-> <<>>])
  /\ UNCHANGED watchVars

\* a purge that counts the rows after it has deleted them
PurgeCountsLate ==
  /\ pc = "idle"
  /\ Len(calls) < MaxStoreOps
  /\ db' = {}
  /\ calls' = Append(calls,
       [op |-> "purge", alert |-> BlankAlert, short_id |-> <<>>,
        full_id |-> <<>>, ret |-> FALSE, count |-> 0,
        before |-> db, after |-> {}, arg |-> <<>>, out |-> <<>>])
  /\ UNCHANGED watchVars

\* AlertsDB.purge_alerts()
Purge ==
  /\ pc = "idle"
  /\ Len(calls) < MaxStoreOps
  /\ db' = {}
  /\ calls' = Append(calls,
       [op |-> "purge", alert |-> BlankAlert, short_id |-> <<>>,
        full_id |-> <<>>, ret |-> FALSE, count |-> Cardinality(db),
        before |-> db, after |-> {}, arg |-> <<>>, out |-> <<>>])
  /\ UNCHANGED watchVars

NextStore ==
  \/ \E a \in StoreAlerts, d \in StoreShortIds, f \in StoreFullIds :
       StoreCall(a, d, f)
  \/ Purge

SpecStore == Init /\ [][NextStore]_vars

SameArgs(c1, c2) ==
  /\ c1.op = "store" /\ c2.op = "store"
  /\ c1.alert = c2.alert /\ c1.short_id = c2.short_id
  /\ c1.full_id = c2.full_id

\* no row of the table carries the display id or the full id
NoRowFor(table, short_id, full_id) ==
  ~\E r \in table : r.id = short_id \/ r.full_id = full_id

C10_NewByDisplayId ==
  \A i \in 1..Len(calls) :
    calls[i].op = "store" =>
      (calls[i].ret = ~\E r \in calls[i].before : r.id = calls[i].short_id)

----------------------------------------------------------------------------
(* The display id of repl.py 491-497 on its own: derived for identifiers   *)
(* put together from the pieces the derivation looks at.                   *)

\* identifiers are put together from at most MaxIdPieces of IdPieces
MaxIdPieces == 4
IdPieces ==
  {<<"a">>, <<":">>, <<"1">>, <<"i", "n", "d", ":">>, <<"d", "e", "t", ":">>}

RECURSIVE Joined(_)
Joined(n) ==
  IF n = 0 THEN {<<>>}
  ELSE LET S == Joined(n - 1) IN S \cup {s \o p : s \in S, p \in IdPieces}

ExampleInd == <<"a", "b", "c", ":", "i", "n", "d", ":", "1", "2", "3", "4">>
ExampleDet == <<"a", "b", "c", ":", "d", "e", "t", ":", "5", "6", "7", "8">>

\* aid_full is never empty: the "unknown-id" default replaces a falsy id
DisplayInputs == (Joined(MaxIdPieces) \ {<<>>}) \cup {ExampleInd, ExampleDet, UnknownId}

\* lines 491-497 run for one identifier
DisplayCall(aid_full) ==
  /\ pc = "idle"
  /\ calls = <<>>
  /\ calls' = <<[op |-> "display", aid_full |-> aid_full,
                 aid |-> DisplayId(aid_full)]>>
  /\ UNCHANGED <<db>>
  /\ UNCHANGED watchVars

NextDisplay == \E t \in DisplayInputs : DisplayCall(t)

SpecDisplay == Init /\ [][NextDisplay]_vars

\* r is the part of t from the first place where the text m stands
FromFirst(t, r, m) ==
  \E k \in 0..Len(t) :
    /\ t = SubSeq(t, 1, k) \o r
    /\ Len(r) >= Len(m) /\ SubSeq(r, 1, Len(m)) = m
    /\ \A j \in 1..k : SubSeq(t, j, j + Len(m) - 1) # m

\* t has the text m somewhere
Has(t, m) ==
  \E j \in 1..(Len(t) - Len(m) + 1) : SubSeq(t, j, j + Len(m) - 1) = m

\* C11: the display id of an identifier holding ":ind:" is its part from the
\* first "ind:" on; failing that, of one holding ":det:" its part from the
\* first "det:" on; of one holding neither, the identifier itself;
\* "abc:ind:1234" gives "ind:1234" and "abc:det:5678" gives "det:5678"
C11_DisplayIdDerivation ==
  \A i \in 1..Len(calls) :
    LET t == calls[i].aid_full
        r == calls[i].aid
    IN  /\ Has(t, <<":", "i", "n", "d", ":">>)
             => FromFirst(t, r, <<"i", "n", "d", ":">>)
        /\ (~Has(t, <<":", "i", "n", "d", ":">>)
              /\ Has(t, <<":", "d", "e", "t", ":">>))
             => FromFirst(t, r, <<"d", "e", "t", ":">>)
        /\ (~Has(t, <<":", "i", "n", "d", ":">>)
              /\ ~Has(t, <<":", "d", "e", "t", ":">>)) => r = t
        /\ t = ExampleInd => r = <<"i", "n", "d", ":", "1", "2", "3", "4">>
        /\ t = ExampleDet => r = <<"d", "e", "t", ":", "5", "6", "7", "8">>

\* the display id of ":det:ind:1", which holds both markers, has been
\* derived: "ind:1"
C11_Witness ==
  /\ calls # <<>>
  /\ calls[1].aid_full = <<":", "d", "e", "t", ":", "i", "n", "d", ":", "1">>
  /\ calls[1].aid = <<"i", "n", "d", ":", "1">>

----------------------------------------------------------------------------
(* matches_filter (config/settings.py 85-115) on its own: called with any  *)
(* record and any filter of the sets below.                                *)

Web01 == <<"w", "e", "b", "0", "1">>

MatchSeverities ==
  {Absent, Null, Num(30), Num(70), Str(<<"7", "0">>), Str(<<"a", "b">>)}
MatchProducts == {Absent, Null, Str(<<"E", "D", "R">>)}
MatchHostnames == {Absent, Null, Str(Web01)}
MatchNames == {Absent, Str(<<"b", "a", "d">>)}
MatchDescriptions == {Absent, Str(<<"r", "o", "w">>)}

MatchAlerts ==
  {[BlankAlert EXCEPT !.severity = sv, !.product = pr, !.hostname = hn,
                      !.name = nm, !.description = ds] :
     sv \in MatchSeverities, pr \in MatchProducts, hn \in MatchHostnames,
     nm \in MatchNames, ds \in MatchDescriptions}

MatchFilters ==
  {[severity_min |-> sm, product |-> pr, hostname |-> hn, status |-> <<>>,
    keywords |-> kw] :
     sm \in {<<>>, <<50>>, <<80>>},
     pr \in {<<>>, <<"e", "d", "r">>, <<"o", "n">>},
     hn \in {<<>>, <<"W", "E", "B">>},
     kw \in {<<>>, <<<<"B", "A", "D">>>>, <<<<"d", " ", "r">>, <<"w", "e">>>>}}

\* TalonState.matches_filter(alert, filter_obj) is called
MatchCall(alert, filter_obj) ==
  /\ pc = "idle"
  /\ calls = <<>>
  /\ calls' = <<[op |-> "matches", alert |-> alert, filter |-> filter_obj,
                 ret |-> matches_filter(alert, filter_obj)]>>
  /\ UNCHANGED <<db>>
  /\ UNCHANGED watchVars

NextMatch == \E a \in MatchAlerts, f \in MatchFilters : MatchCall(a, f)

SpecMatch == Init /\ [][NextMatch]_vars

\* p occurs in t, letters compared without case
ContainsNoCase(t, p) == Has(Lower(t), Lower(p))

\* the severity as a number, where it is one: <<n>>, else <<>>
SeverityNumber(v) ==
  CASE v.k = "int" -> <<v.n>>
    [] v.k = "absent" -> <<0>>
    [] v.k = "str" /\ v.s # <<>> /\ (\A i \in 1..Len(v.s) : IsDigit(v.s[i]))
         -> <<ParseNat(v.s)>>
    [] OTHER -> <<>>

\* the text of a field that holds text, else the empty text
FieldText(v) == IF v.k = "str" THEN v.s ELSE <<>>

SeveritySatisfied(a, f) ==
  \/ f.severity_min = <<>>
  \/ SeverityNumber(a.severity) = <<>>
  \/ SeverityNumber(a.severity)[1] >= f.severity_min[1]

OthersSatisfied(a, f) ==
  /\ f.product = <<>> \/ ContainsNoCase(FieldText(a.product), f.product)
  /\ f.hostname = <<>> \/ ContainsNoCase(FieldText(a.hostname), f.hostname)
  /\ \/ f.keywords = <<>>
     \/ \E i \in 1..Len(f.keywords) :
          ContainsNoCase(FieldText(a.name) \o <<" ">> \o FieldText(a.description),
                         f.keywords[i])

ExampleRecord ==
  [BlankAlert EXCEPT !.severity = Num(70), !.product = Str(<<"E", "D", "R">>),
                     !.hostname = Str(Web01)]

\* C13: for a record whose severity is not null, matches_filter returns True
\* exactly when each option that is set is satisfied (severity at least
\* severity_min, product, hostname and keywords found without regard to
\* case), and False otherwise; the empty filter accepts every record; the
\* record of severity 70, product EDR, host web01 passes {50, "edr"} and
\* fails {80}
C13_MatchesIsConjunction ==
  \A i \in 1..Len(calls) :
    LET a == calls[i].alert
        f == calls[i].filter
    IN  /\ a.severity.k # "null" =>
             calls[i].ret =
               (IF SeveritySatisfied(a, f) /\ OthersSatisfied(a, f)
                THEN "true" ELSE "false")
        /\ f = NoFilter => calls[i].ret = "true"
        /\ (a = ExampleRecord /\ f = [NoFilter EXCEPT !.severity_min = <<50>>,
                                        !.product = <<"e", "d", "r">>])
             => calls[i].ret = "true"
        /\ (a = ExampleRecord /\ f = [NoFilter EXCEPT !.severity_min = <<80>>])
             => calls[i].ret = "false"

\* C14: with severity_min set and a severity that is no number (text that is
\* no number, or null) on a record whose other fields hold text,
\* matches_filter raises nothing and answers as the other options decide
C14_SeverityFailsOpen ==
  \A i \in 1..Len(calls) :
    LET a == calls[i].alert
        f == calls[i].filter
    IN  (/\ f.severity_min # <<>>
         /\ SeverityNumber(a.severity) = <<>>
         /\ a.product.k # "null" /\ a.hostname.k # "null")
          => calls[i].ret = (IF OthersSatisfied(a, f) THEN "true" ELSE "false")

----------------------------------------------------------------------------
(* FalconClient.fetch_alerts (api/client.py 108-144) on its own: called    *)
(* once with any list of ids, every request answered in any way.           *)

\* ids in the list handed to fetch_alerts at most
MaxFetchIds == 3
FetchIdLists == SeqsUpTo({IdA, IdC}, MaxFetchIds)

\* client.py 112-116: fetch_alerts(ids) is entered; an empty list returns []
\* at once
FetchCallBegin(id_list) ==
  /\ pc = "idle"
  /\ sessions = 0
  /\ calls = <<>>
  /\ calls' = <<[op |-> "fetch", ids |-> id_list]>>
  /\ ids' = id_list
  /\ alerts' = <<>>
  /\ reqs' = <<>>
  /\ chunk_i' = 0
  /\ pc' = IF id_list = <<>> THEN "fetched" ELSE "fetch"
  /\ UNCHANGED <<idx, max_created_seen, offset>>
  /\ UNCHANGED <<since, seen, emitted>>
  /\ UNCHANGED <<db, alert_id_cache, alert_stats, new_alerts_count, reported>>
  /\ UNCHANGED sessionVars
  /\ UNCHANGED authVars
  /\ UNCHANGED configVars

NextFetch ==
  \/ \E id_list \in FetchIdLists : FetchCallBegin(id_list)
  \/ \E h \in RetryAfterValues : Fetch429(h)
  \/ \E status \in {429, 500} : FetchError(status)
  \/ \E recs \in FetchResponses(CurChunk) : FetchOK(recs)

SpecFetch == Init /\ [][NextFetch]_vars

\* the k-th run of at most size elements of sq
Run(sq, size, k) == SubSeq(sq, (k - 1) * size + 1, Min(k * size, Len(sq)))

\* the resources of the answers of a log, one after the other
RECURSIVE ConcatRecs(_)
ConcatRecs(log) ==
  IF log = <<>> THEN <<>> ELSE log[1].recs \o ConcatRecs(Tail(log))

\* C15: when fetch_alerts has returned, the first sends of its log are the
\* runs of at most FetchOnlyChunkSize ids of the input, in order, one for each
\* run and no other; a request is sent a second time only after a 429 to its
\* first send, so without a 429 the requests are exactly the runs; the
\* records returned are the resources of the 200 answers in the order of the
\* runs; for an empty list no request is sent and nothing is returned
C15_FetchChunks ==
  (calls # <<>> /\ calls[1].op = "fetch" /\ pc = "fetched") =>
    LET input == calls[1].ids
        n == Len(input)
        runs == (n + FetchOnlyChunkSize - 1) \div FetchOnlyChunkSize
        firsts == SelectSeq(reqs, LAMBDA e : e.attempt = 1)
        oks == SelectSeq(reqs, LAMBDA e : e.status = 200)
    IN  /\ Len(firsts) = runs
        /\ \A k \in 1..runs :
             firsts[k].kind = "fetch"
               /\ firsts[k].chunk = Run(input, FetchOnlyChunkSize, k)
        /\ Len(oks) = runs
        /\ \A k \in 1..runs : oks[k].chunk = Run(input, FetchOnlyChunkSize, k)
        /\ \A i \in 1..Len(reqs) :
             reqs[i].attempt # 1 =>
               (i > 1 /\ reqs[i - 1].status = 429 /\ reqs[i - 1].attempt = 1
                  /\ SameRequest(reqs[i - 1], reqs[i]))
        /\ (\A i \in 1..Len(reqs) : reqs[i].status # 429) => Len(reqs) = runs
        /\ alerts = ConcatRecs(oks)
        /\ n = 0 => (reqs = <<>> /\ alerts = <<>>)

\* three ids were fetched in two requests, of two ids and of one, and both
\* answers carried a record
C15_Witness ==
  /\ calls # <<>>
  /\ calls[1].op = "fetch"
  /\ pc = "fetched"
  /\ calls[1].ids = <<IdA, IdC, IdA>>
  /\ Len(reqs) = 2
  /\ reqs[1].chunk = <<IdA, IdC>>
  /\ reqs[2].chunk = <<IdA>>
  /\ alerts = <<AlertC, AlertA>>

-----------------------------------------------------------------------------
(* FalconClient.query_alert_ids (api/client.py 63-106) on its own: called  *)
(* once, every request answered in any way.                                *)

\* client.py 74-81: query_alert_ids is entered with offset 0 and no id
ListCallBegin ==
  /\ pc = "idle"
  /\ sessions = 0
  /\ calls = <<>>
  /\ calls' = <<[op |-> "list"]>>
  /\ ids' = <<>>
  /\ offset' = 0
  /\ reqs' = <<>>
  /\ pc' = "list"
  /\ UNCHANGED <<alerts, idx, max_created_seen, chunk_i>>
  /\ UNCHANGED <<since, seen, emitted>>
  /\ UNCHANGED <<db, alert_id_cache, alert_stats, new_alerts_count, reported>>
  /\ UNCHANGED sessionVars
  /\ UNCHANGED authVars
  /\ UNCHANGED configVars

NextList ==
  \/ ListCallBegin
  \/ \E h \in RetryAfterValues : List429(h)
  \/ \E resp \in ListResponses : ListPage(resp)

SpecList == Init /\ [][NextList]_vars

\* the pages of a log that were read: the 200 answers
PagesRead(log) == SelectSeq(log, LAMBDA e : e.status = 200)

\* C16: when query_alert_ids has returned, its result is the ids of the pages
\* read, one after the other in the order read; the first page is asked at
\* offset 0, each next one at the offset plus limit the page before reported,
\* every page but the last reported offset + limit < total and the last one
\* offset + limit >= total; a 429 answer carries no ids and the request after
\* it has the same offset
C16_ListPages ==
  (calls # <<>> /\ calls[1].op = "list" /\ pc = "listed") =>
    LET pages == PagesRead(reqs)
        n == Len(pages)
    IN  /\ n >= 1
        /\ reqs[Len(reqs)].status = 200
        /\ ids = ConcatRecs(pages)
        /\ pages[1].offset = 0
        /\ \A k \in 1..(n - 1) :
             /\ pages[k].meta.offset + pages[k].meta.limit < pages[k].meta.total
             /\ pages[k + 1].offset = pages[k].meta.offset + pages[k].meta.limit
             /\ pages[k + 1].offset > pages[k].offset
        /\ pages[n].meta.offset + pages[n].meta.limit >= pages[n].meta.total
        /\ \A i \in 1..Len(reqs) :
             reqs[i].status = 429 =>
               /\ reqs[i].recs = <<>>
               /\ i < Len(reqs)
               /\ reqs[i + 1].offset = reqs[i].offset

\* three pages were read, the second one asked twice because of a 429, and
\* the three ids came back in page order
C16_Witness ==
  /\ calls # <<>> /\ calls[1].op = "list" /\ pc = "listed"
  /\ Len(PagesRead(reqs)) = ListOnlyMaxPages
  /\ \E i \in 1..Len(reqs) : reqs[i].status = 429 /\ reqs[i].offset = PageLimit
  /\ Len(ids) = ListOnlyMaxPages
  /\ ids[1] # ids[2]

-----------------------------------------------------------------------------
(* FalconClient.token (api/client.py 32-61) on its own: called at any time *)
(* on a client fresh from its constructor, the token endpoint answering in *)
(* any way.                                                                *)

\* the readings of the clock that are followed, and the seconds a POST may
\* take: 40 s and 1740 s are where lifetimes of 100 s and 1800 s stop being
\* valid
ClockReadings == {StartTime + x : x \in {0, 40, 80, 1740, 1780}}
PostSeconds == {0, 40}

\* what the token endpoint may answer: a status and a body that is no JSON
\* ("text"), JSON but no object ("array"), or an object with or without
\* access_token and expires_in
TokenBodies ==
  {[json |-> j, access_token |-> Absent, expires_in |-> Absent] :
     j \in {"text", "array"}}
  \cup {[json |-> "object", access_token |-> a, expires_in |-> x] :
          a \in {Absent, Null, Str(TokenA), Str(TokenB)},
          x \in {Absent, Null, Num(0), Num(100), Str(<<"1", "0", "0">>),
                 Str(<<"b">>)}}
TokenResponses ==
  {[status |-> 200, body |-> b] : b \in TokenBodies}
  \cup {[status |-> st,
         body |-> [json |-> "text", access_token |-> Absent,
                   expires_in |-> Absent]] : st \in {401, 500}}

\* a validity test without the margin: time.time() < self._exp
is_token_valid_no_margin == tok # Null /\ now < exp

\* client.py 32-35
is_token_valid == tok # Null /\ now < exp - TokenSkew

\* the token state as it is, with the way the call ended
Kept(r) == [r |-> r, tok |-> tok, exp |-> exp, auth_header |-> auth_header]

\* a client that stores token and header before it reads expires_in
ExchangeStoresFirst(resp, t) ==
  IF resp.status # 200 THEN Kept("HTTPError")
  ELSE IF resp.body.json = "text" THEN Kept("JSONDecodeError")
  ELSE IF resp.body.json = "array" THEN Kept("TypeError")
  ELSE IF resp.body.access_token = Absent THEN Kept("KeyError")
  ELSE LET token == resp.body.access_token
           expires == IF resp.body.expires_in = Absent
                      THEN [r |-> "ok", n |-> DefaultExpiresIn]
                      ELSE IntOf(resp.body.expires_in)
       IN  IF expires.r # "ok"
           THEN [r |-> expires.r, tok |-> token, exp |-> exp,
                 auth_header |-> Bearer(token)]
           ELSE [r |-> "ok", tok |-> token, exp |-> t + expires.n,
                 auth_header |-> Bearer(token)]

\* client.py 50-59: the answer to the POST, read at time t: how the exchange
\* ends and the token state it leaves
Exchanged(resp, t) ==
  IF resp.status # 200 THEN Kept("HTTPError")
  ELSE IF resp.body.json = "text" THEN Kept("JSONDecodeError")
  ELSE IF resp.body.json = "array" THEN Kept("TypeError")
  ELSE IF resp.body.access_token = Absent THEN Kept("KeyError")
  ELSE LET token == resp.body.access_token
           expires == IF resp.body.expires_in = Absent
                      THEN [r |-> "ok", n |-> DefaultExpiresIn]
                      ELSE IntOf(resp.body.expires_in)
       IN  IF expires.r # "ok" THEN Kept(expires.r)
           ELSE [r |-> "ok", tok |-> token, exp |-> t + expires.n,
                 auth_header |-> Bearer(token)]

\* the record of one call: the token state and the time it found, the answer
\* of the endpoint, the time the answer was read, the POSTs made, how it ended
\* and what it returned
CallRecord(op, resp, t, posts, r, ret) ==
  [op |-> op, tok0 |-> tok, exp0 |-> exp, header0 |-> auth_header,
   t0 |-> now, connected0 |-> connected, sessions0 |-> sessions,
   resp |-> resp, t1 |-> t, requests |-> posts, r |-> r, ret |-> ret]

NoResponse ==
  [status |-> 0,
   body |-> [json |-> "text", access_token |-> Absent, expires_in |-> Absent]]

\* client.py 37-61: token(), with the time the POST takes
token(resp, d) ==
  /\ pc = "idle"
  /\ UNCHANGED configVars
  /\ IF is_token_valid
     THEN /\ resp = NoResponse
          /\ d = 0
          /\ calls' = <<CallRecord("token", resp, now, 0, "ok", tok)>>
          /\ UNCHANGED <<tok, exp, auth_header, now>>
     ELSE /\ resp \in TokenResponses
          /\ now + d \in ClockReadings
          /\ LET o == Exchanged(resp, now + d)
             IN  /\ tok' = o.tok
                 /\ exp' = o.exp
                 /\ auth_header' = o.auth_header
                 /\ now' = now + d
                 /\ calls' = <<CallRecord("token", resp, now + d, 1, o.r,
                                          IF o.r = "ok" THEN o.tok ELSE Null)>>
  /\ UNCHANGED <<pc, exit, sessions, apiMode, alert_filter, since, seen,
                 emitted, ids, alerts, idx, max_created_seen, offset, chunk_i,
                 reqs, db, alert_id_cache, alert_stats, new_alerts_count,
                 reported, connected>>

\* time passes at the prompt
Tick(t) ==
  /\ pc = "idle"
  /\ UNCHANGED configVars
  /\ t > now
  /\ now' = t
  /\ UNCHANGED <<pc, exit, sessions, apiMode, alert_filter, since, seen,
                 emitted, ids, alerts, idx, max_created_seen, offset, chunk_i,
                 reqs, db, alert_id_cache, alert_stats, new_alerts_count,
                 reported, calls, tok, exp, auth_header, connected>>

NextToken ==
  \/ \E resp \in TokenResponses \cup {NoResponse}, d \in PostSeconds :
       token(resp, d)
  \/ \E t \in ClockReadings : Tick(t)

SpecToken == InitFresh /\ [][NextToken]_vars

\* the latest call is a call of op
Called(op) == calls # <<>> /\ calls[1].op = op

\* C17: token() makes a token exchange exactly when the token it finds is not
\* valid, valid meaning a token is present and the time is before the expiry
\* less 60 s, and never more than one; finding a valid token it returns that
\* token and changes nothing; after an exchange that succeeded the expiry is
\* the time the answer was read plus expires_in (1800 without one), the token
\* of the answer is stored and returned, and the Authorization header carries
\* it as bearer
C17_TokenWhenNotValid ==
  Called("token") =>
    LET c == calls[1]
        valid == c.tok0 # Null /\ c.t0 < c.exp0 - 60
        lifetime == IF c.resp.body.expires_in = Absent THEN 1800
                    ELSE IntOf(c.resp.body.expires_in).n
    IN  /\ c.requests = (IF valid THEN 0 ELSE 1)
        /\ valid => /\ c.r = "ok" /\ c.ret = c.tok0
                    /\ tok = c.tok0 /\ exp = c.exp0 /\ auth_header = c.header0
        /\ (~valid /\ c.r = "ok") =>
             /\ exp = c.t1 + lifetime
             /\ tok = c.resp.body.access_token
             /\ c.ret = tok
             /\ auth_header = Bearer(tok)

\* a call 40 s after an exchange that gave 100 s of life finds the token no
\* longer valid (40 = 100 - 60) and exchanges again
C17_Witness ==
  /\ Called("token")
  /\ calls[1].tok0 = Str(TokenA)
  /\ calls[1].t0 = calls[1].exp0 - 60
  /\ calls[1].requests = 1
  /\ calls[1].r = "ok"
  /\ tok = Str(TokenB)
  /\ exp = calls[1].t1 + 1800

\* a valid token was returned without a request
C17_WitnessCached ==
  /\ Called("token")
  /\ calls[1].requests = 0
  /\ calls[1].t0 > StartTime
  /\ calls[1].ret = Str(TokenA)

\* the answer of the endpoint is no success or cannot be read: not 200, no
\* JSON, no JSON object, no access_token, or an expires_in that is no number
FailedExchange(resp) ==
  \/ resp.status # 200
  \/ resp.body.json # "object"
  \/ resp.body.access_token = Absent
  \/ /\ resp.body.expires_in # Absent
     /\ IntOf(resp.body.expires_in).r # "ok"

\* C18: a token exchange answered with a status other than success or with a
\* response that cannot be read ends in an error after its one request, and
\* every exchange that ends in an error leaves the token, its expiry and the
\* Authorization header as the call found them
C18_FailedExchangeKeepsState ==
  (Called("token") /\ calls[1].requests > 0) =>
    LET c == calls[1]
    IN  /\ c.requests = 1
        /\ FailedExchange(c.resp) => c.r # "ok"
        /\ c.r # "ok" =>
             /\ tok = c.tok0 /\ exp = c.exp0 /\ auth_header = c.header0

\* an exchange failed on its expires_in while a token was cached, and the
\* cached token is still there
C18_Witness ==
  /\ Called("token")
  /\ calls[1].requests = 1
  /\ calls[1].resp.status = 200
  /\ calls[1].resp.body.access_token = Str(TokenB)
  /\ calls[1].r = "TypeError"
  /\ calls[1].tok0 = Str(TokenA)
  /\ tok = Str(TokenA)
  /\ auth_header = Bearer(Str(TokenA))

-----------------------------------------------------------------------------
(* Cancellation of a watch session (ui/repl.py 595-601) *)

\* a step in which CTRL+C ends the running session
CancelStep == pc # "idle" /\ pc' = "idle" /\ exit' = "interrupt"

\* records the running session has handed to store_alert and got back from:
\* the ones it printed, but for the one still waiting at line 566
StoredThisSession == Len(emitted) - (IF pc = "store" THEN 1 ELSE 0)

\* C20: a step that cancels the session, wherever the loop stands, sets
\* new_alerts_count to zero, empties seen_ids, returns to idle and, when the
\* count is above zero, reports it; the count it reports is the number of
\* records first inserted during the session: never more than the session
\* has stored, and in the first session the number of rows of the table
C20_CancelReportsSessionCount ==
  [][CancelStep =>
       /\ new_alerts_count' = 0
       /\ seen' = {}
       /\ new_alerts_count > 0 => reported' = new_alerts_count
       /\ new_alerts_count = 0 => reported' = reported
       /\ new_alerts_count <= StoredThisSession
       /\ sessions = 1 => new_alerts_count = Cardinality(db)]_vars

-----------------------------------------------------------------------------
(* TalonREPL.cmd_connect (ui/repl.py 409-451): connect typed at the prompt *)
(* at any time, the token endpoint answering in any way; a watch session   *)
(* that was started is left with CTRL+C.                                   *)

\* connects that start a watcher, at most
MaxConnects == 2

\* a shell that marks itself connected before it authenticates
ConnectedAlways(o) == TRUE

\* repl.py 431-444: the flag after the authentication ended as o.r: an
\* exchange that failed returns before line 444
ConnectedAfter(o) == IF o.r = "ok" THEN TRUE ELSE connected

\* repl.py 451: self._watch(client) is entered (lines 466-478)
WatchStarts ==
  /\ sessions' = sessions + 1
  /\ exit' = "none"
  /\ \E t \in StartTenths : since' = fql_time(t)
  /\ seen' = {}
  /\ emitted' = <<>>
  /\ BeginQuery

\* repl.py 434-441: return before the watcher is started
WatchNotStarted ==
  UNCHANGED <<pc, exit, sessions, since, seen, emitted, ids, alerts, idx,
              max_created_seen, offset, chunk_i, reqs>>

\* a second profile, with a secret of its own
ProfileB ==
  [EntryA EXCEPT !.id = Str(<<"b">>), !.client_secret = Str(<<"t">>)]

\* config/settings.py 27-34: the active connection, <<>> for None
active ==
  LET m == SelectSeq(connections, LAMBDA c : c.id = active_id)
  IN  IF ~Truthy(active_id) \/ m = <<>> THEN <<>> ELSE <<m[1]>>

\* repl.py 409-451: connect, with the time the POST takes.  Without an
\* active connection it returns at once; a client that is missing or was
\* built for other credentials is replaced by a new one, which has no token
cmd_connect(resp, d) ==
  /\ pc = "idle"
  /\ sessions < MaxConnects
  /\ UNCHANGED <<connections, active_id, poll_interval, spinners>>
  /\ IF active = <<>>
     THEN /\ resp = NoResponse
          /\ d = 0
          /\ calls' = <<CallRecord("connect", resp, now, 0,
                                   "No active connection", Null)>>
          /\ WatchNotStarted
          /\ UNCHANGED <<client, tok, exp, auth_header, now, connected>>
     ELSE LET kept == client = ClientFor(active[1])
          IN  /\ client' = ClientFor(active[1])
              /\ IF kept /\ is_token_valid
                 THEN /\ resp = NoResponse
                      /\ d = 0
                      /\ calls' = <<CallRecord("connect", resp, now, 0, "ok",
                                               Null)>>
                      /\ connected' = TRUE
                      /\ WatchStarts
                      /\ UNCHANGED <<tok, exp, auth_header, now>>
                 ELSE /\ resp \in TokenResponses
                      /\ now + d \in ClockReadings
                      /\ LET o == Exchanged(resp, now + d)
                             held == o.r = "ok" \/ kept
                         IN  /\ tok' = IF held THEN o.tok ELSE Null
                             /\ exp' = IF held THEN o.exp ELSE 0
                             /\ auth_header' =
                                  IF held THEN o.auth_header ELSE Absent
                             /\ now' = now + d
                             /\ connected' = ConnectedAfter(o)
                             /\ calls' =
                                  <<CallRecord("connect", resp, now + d, 1,
                                               IF o.r = "ok" THEN "ok"
                                               ELSE "Auth failure", Null)>>
                             /\ IF o.r = "ok" THEN WatchStarts
                                ELSE WatchNotStarted
  /\ UNCHANGED <<apiMode, alert_filter, db, alert_id_cache, alert_stats,
                 new_alerts_count, reported>>

\* what the keys commands and run leave alone
keysFrame ==
  <<pc, exit, sessions, apiMode, alert_filter, since, seen, emitted, ids,
    alerts, idx, max_created_seen, offset, chunk_i, reqs, db, alert_id_cache,
    alert_stats, new_alerts_count, reported, now, poll_interval,
    spinners>>

\* s.client = None; s.connected = False: the client and its token are gone
Disconnected ==
  /\ client' = <<>>
  /\ connected' = FALSE
  /\ tok' = Null
  /\ exp' = 0
  /\ auth_header' = Absent

\* repl.py 212-236: keys list, entry i is selected: it becomes the active
\* one, and when it was not the active one before, the client is dropped
keys_list(i) ==
  /\ pc = "idle"
  /\ i \in 1..Len(connections)
  /\ active_id' = connections[i].id
  /\ IF active_id # connections[i].id
     THEN Disconnected
     ELSE UNCHANGED <<client, connected, tok, exp, auth_header>>
  /\ calls' = <<[op |-> "keys_list", id |-> connections[i].id,
                 active0 |-> active_id]>>
  /\ UNCHANGED connections
  /\ UNCHANGED keysFrame

\* a shell that has loaded two profiles, the first of them active, and has
\* not connected yet
LoadedShell ==
  /\ tok = Null
  /\ exp = 0
  /\ auth_header = Absent
  /\ now = StartTime
  /\ connected = FALSE
  /\ connections = <<Connection(EntryA), Connection(ProfileB)>>
  /\ active_id = EntryA.id
  /\ client = <<>>
  /\ spinners = <<>>

NextConnect ==
  \/ \E resp \in TokenResponses \cup {NoResponse}, d \in PostSeconds :
       cmd_connect(resp, d)
  \/ \E t \in ClockReadings : Tick(t)
  \/ \E i \in 1..2 : keys_list(i)
  \/ Cancel

InitShell == WatchIdle("any") /\ LoadedShell

SpecConnect == InitShell /\ [][NextConnect]_vars

\* a step that is a connect
ConnectStep == calls' # calls /\ calls'[1].op = "connect"

\* C19: a connect whose token exchange fails makes that one request, reports
\* "Auth failure", starts no watcher (the shell stays at its prompt, no
\* session is begun) and leaves the connected flag as it was; no connect
\* makes more than one request
C19_FailedConnect ==
  [][ConnectStep =>
       LET c == calls'[1]
       IN  /\ c.requests <= 1
           /\ (c.requests = 1 /\ FailedExchange(c.resp)) =>
                /\ c.r = "Auth failure"
                /\ connected' = connected
                /\ pc' = "idle"
                /\ sessions' = sessions
                /\ emitted' = emitted
           /\ c.r = "Auth failure" =>
                (c.requests = 1 /\ FailedExchange(c.resp))]_vars

\* a shell that was connected, its token expired, failed to connect and is
\* still marked connected, at its prompt
C19_Witness ==
  /\ Called("connect")
  /\ calls[1].r = "Auth failure"
  /\ calls[1].connected0
  /\ calls[1].tok0 # Null
  /\ connected
  /\ pc = "idle"
  /\ sessions = 1

-----------------------------------------------------------------------------
(* AlertsDB read side (database/alerts_db.py 89-272): lookups, listings,   *)
(* statistics and exports called between any store_alert and purge_alerts. *)

IdF == <<"c", ":", "i", "n", "d", ":", "4">>
\* created on the day after the others, severity null, no product
AlertF ==
  [BlankAlert EXCEPT !.composite_id = Str(IdF), !.severity = Null,
     !.created_timestamp = Ts(86402, 0)]

ReadStoreAlerts == {AlertA, AlertB, AlertD, AlertF}

\* keys looked up: the display ids, a prefix of one and a part of one
LookupKeys ==
  StoreShortIds \cup {<<"i", "n", "d", ":">>, <<"n", "d", ":", "1">>}
RecentLimits == 0..2
\* no date (all rows), or a day
StatScopes == {<<>>, <<0>>, <<1>>}

\* SQLite's order of created_timestamp TEXT values: NULL before any text,
\* text by its bytes
SqlLess(a, b) ==
  IF a = NoTs \/ b = NoTs THEN a = NoTs /\ b # NoTs
  ELSE StrLess(a, b)

Perms(S) ==
  {sq \in [1..Cardinality(S) -> S] : \A r \in S : \E i \in DOMAIN sq : sq[i] = r}

\* the orders ORDER BY created_timestamp DESC may deliver the rows in
OrderedDesc(table) ==
  {sq \in Perms(table) :
     \A i, j \in DOMAIN sq :
       i < j => ~SqlLess(sq[i].created_timestamp, sq[j].created_timestamp)}

\* alerts_db.py 176: DATE(created_timestamp), <<>> for NULL
DateOf(t) == IF t = NoTs \/ ~t.ok THEN <<>> ELSE <<t.s \div 86400>>

\* a value as the column holds it: a missing key is bound as None; INTEGER
\* affinity turns a text of digits into the number
SqlInteger(v) ==
  CASE v.k = "absent" -> Null
    [] v.k = "str" /\ v.s # <<>> /\ (\A i \in 1..Len(v.s) : IsDigit(v.s[i]))
         -> Num(ParseNat(v.s))
    [] OTHER -> v
\* TEXT affinity turns a number into its text
SqlText(v) ==
  CASE v.k = "absent" -> Null
    [] v.k = "int" -> Str(NatToStr(v.n))
    [] OTHER -> v

\* a lookup that takes the key for the beginning of the display id
get_alert_by_prefix(table, key) ==
  LET m == {r \in table :
              Len(r.short_id) >= Len(key)
                /\ SubSeq(r.short_id, 1, Len(key)) = key}
  IN  IF m = {}
      THEN [found |-> FALSE, alert |-> BlankAlert, full_id |-> <<>>]
      ELSE LET r == CHOOSE x \in m : TRUE
           IN  [found |-> TRUE, alert |-> json_loads(r.raw_data),
                full_id |-> r.full_id]

\* alerts_db.py 89-106: the record with "_full_id" set, or None
get_alert_by_short_id(table, key) ==
  LET m == {r \in table : r.short_id = key \/ r.id = key}
  IN  IF m = {}
      THEN [found |-> FALSE, alert |-> BlankAlert, full_id |-> <<>>]
      ELSE LET r == CHOOSE x \in m : TRUE
           IN  [found |-> TRUE, alert |-> json_loads(r.raw_data),
                full_id |-> r.full_id]

\* alerts_db.py 108-134: the first limit rows of the order, seven columns
get_recent_alerts(ord, limit) ==
  [i \in 1..Min(limit, Len(ord)) |->
     [short_id |-> ord[i].short_id, name |-> ord[i].name,
      severity |-> SqlInteger(ord[i].severity), status |-> ord[i].status,
      hostname |-> ord[i].hostname,
      created_timestamp |-> ord[i].created_timestamp,
      full_id |-> ord[i].full_id]]

\* alerts_db.py 255-272: the file is the array of the records read back from
\* raw_data and written again
export_alerts_json(ord) ==
  [file |-> [i \in 1..Len(ord) |-> json_dumps(json_loads(ord[i].raw_data))],
   count |-> Len(ord)]

\* alerts_db.py 220-253: one line for each row (after the header)
export_alerts_csv(ord) ==
  [file |-> [i \in 1..Len(ord) |->
               [ID |-> ord[i].short_id,
                Severity |-> SqlInteger(ord[i].severity),
                Product |-> SqlText(ord[i].product),
                Created |-> ord[i].created_timestamp]],
   count |-> Len(ord)]

\* the rows of a scope: all, or those of a day
InScope(table, scope) ==
  IF scope = <<>> THEN table
  ELSE {r \in table : DateOf(r.created_timestamp) = scope}

\* GROUP BY severity that leaves the rows with NULL out
by_severity_not_null(rows) ==
  [v \in {SqlInteger(r.severity) : r \in rows} \ {Null} |->
     Cardinality({r \in rows : SqlInteger(r.severity) = v})]

\* alerts_db.py 142-148, 183-191: dict of (severity, COUNT(*)) per group
by_severity(rows) ==
  [v \in {SqlInteger(r.severity) : r \in rows} |->
     Cardinality({r \in rows : SqlInteger(r.severity) = v})]

\* alerts_db.py 150-156, 194-202: dict of (product, COUNT(*)) per group
by_product(rows) ==
  [v \in {SqlText(r.product) : r \in rows} |->
     Cardinality({r \in rows : SqlText(r.product) = v})]

\* alerts_db.py 136-162 (no date) and 164-209 (a day)
get_stats(table, scope) ==
  LET rows == InScope(table, scope)
  IN  [total |-> Cardinality(rows), by_severity |-> by_severity(rows),
       by_product |-> by_product(rows)]

\* a read is recorded after a write or at the start
Readable ==
  /\ pc = "idle"
  /\ Len(calls) <= MaxStoreOps
  /\ calls # <<>> => calls[Len(calls)].op \in {"store", "purge"}

ReadRecord(op, arg, count, out) ==
  [op |-> op, alert |-> BlankAlert, short_id |-> <<>>, full_id |-> <<>>,
   ret |-> FALSE, count |-> count, before |-> db, after |-> db,
   arg |-> arg, out |-> out]

Lookup(key) ==
  /\ Readable
  /\ calls' = Append(calls,
       ReadRecord("get", key, 0, get_alert_by_short_id(db, key)))
  /\ UNCHANGED <<db>>
  /\ UNCHANGED watchVars

Recent(limit) ==
  /\ Readable
  /\ \E ord \in OrderedDesc(db) :
       calls' = Append(calls,
         ReadRecord("recent", <<limit>>, 0, get_recent_alerts(ord, limit)))
  /\ UNCHANGED <<db>>
  /\ UNCHANGED watchVars

ExportJson ==
  /\ Readable
  /\ \E ord \in OrderedDesc(db) :
       LET e == export_alerts_json(ord)
       IN  calls' = Append(calls, ReadRecord("export_json", <<>>, e.count, e.file))
  /\ UNCHANGED <<db>>
  /\ UNCHANGED watchVars

ExportCsv ==
  /\ Readable
  /\ \E ord \in OrderedDesc(db) :
       LET e == export_alerts_csv(ord)
       IN  calls' = Append(calls, ReadRecord("export_csv", <<>>, e.count, e.file))
  /\ UNCHANGED <<db>>
  /\ UNCHANGED watchVars

Stats(scope) ==
  /\ Readable
  /\ calls' = Append(calls, ReadRecord("stats", scope, 0, get_stats(db, scope)))
  /\ UNCHANGED <<db>>
  /\ UNCHANGED watchVars

NextStoreRead ==
  \/ \E a \in ReadStoreAlerts, d \in StoreShortIds, f \in StoreFullIds :
       StoreCall(a, d, f)
  \/ Purge
  \/ \E key \in LookupKeys : Lookup(key)
  \/ \E limit \in RecentLimits : Recent(limit)
  \/ ExportJson
  \/ ExportCsv
  \/ \E scope \in StatScopes : Stats(scope)

SpecStoreRead == Init /\ [][NextStoreRead]_vars

\* the calls before call k that stored under display id d
StoresOf(d, k) ==
  {i \in 1..(k - 1) : calls[i].op = "store" /\ calls[i].short_id = d}

\* the latest of them
LastStoreOf(d, k) == CHOOSE i \in StoresOf(d, k) : \A j \in StoresOf(d, k) : j <= i

\* the calls of op made so far
CallsOf(op) == {k \in 1..Len(calls) : calls[k].op = op}

\* C21: the file of a JSON export, parsed again, has one record for each row
\* of the table, each equal in every field to the record handed to the latest
\* store_alert under the row's display id, and the count returned is the
\* number of rows
C21_ExportRoundTrip ==
  \A k \in CallsOf("export_json") :
    LET c == calls[k]
    IN  /\ c.count = Cardinality(c.before)
        /\ Len(c.out) = Cardinality(c.before)
        /\ \E ord \in Perms(c.before) :
             \A i \in 1..Len(c.out) :
               json_loads(c.out[i]) = calls[LastStoreOf(ord[i].id, k)].alert

\* an export of two rows, one of them stored over an earlier record, with a
\* fraction of a second and a severity that is a text
C21_Witness ==
  \E k \in CallsOf("export_json") :
    /\ k = 4
    /\ calls[k].count = 2
    /\ calls[1].op = "store" /\ calls[3].op = "store"
    /\ calls[1].short_id = calls[3].short_id
    /\ calls[1].alert # calls[3].alert
    /\ \E i \in 1..2 : json_loads(calls[k].out[i]) = AlertB
    /\ \E i \in 1..2 : json_loads(calls[k].out[i]) = AlertD

\* C22: get_alert_by_short_id(d) finds a record exactly when the table has a
\* row whose display id is d, and then returns the record of the latest
\* store_alert under d, unchanged, with the full id of that call; the row is
\* there when no purge and no store_alert with the same full id came after
\* that call
C22_LookupExact ==
  \A k \in CallsOf("get") :
    LET c == calls[k]
        d == c.arg
    IN  /\ c.out.found = (\E r \in c.before : r.id = d)
        /\ c.out.found =>
             /\ StoresOf(d, k) # {}
             /\ c.out.alert = calls[LastStoreOf(d, k)].alert
             /\ c.out.full_id = calls[LastStoreOf(d, k)].full_id
        /\ (/\ StoresOf(d, k) # {}
            /\ \A j \in (LastStoreOf(d, k) + 1)..(k - 1) :
                 /\ calls[j].op # "purge"
                 /\ calls[j].full_id # calls[LastStoreOf(d, k)].full_id)
             => c.out.found

\* a key that is the beginning of a stored display id finds nothing, while
\* the table holds that row
C22_Witness ==
  \E k \in CallsOf("get") :
    /\ calls[k].arg = <<"i", "n", "d", ":">>
    /\ ~calls[k].out.found
    /\ \E r \in calls[k].before : r.id = DisplayId(IdA)

\* a stored record with a fraction of a second is found again
C22_WitnessFound ==
  \E k \in CallsOf("get") :
    /\ calls[k].out.found
    /\ calls[k].out.alert = AlertB
    /\ calls[k].out.full_id = IdB

\* C23: purge_alerts returns the number of rows the table had and leaves it
\* empty; the call after it finds the store empty: a lookup finds nothing, a
\* listing and the exports have no row and count 0, the statistics have total
\* 0 and no group, and a purge returns 0
C23_PurgeEmpties ==
  \A k \in CallsOf("purge") :
    /\ calls[k].count = Cardinality(calls[k].before)
    /\ calls[k].after = {}
    /\ k < Len(calls) =>
         LET n == calls[k + 1]
         IN  /\ n.before = {}
             /\ n.op = "purge" => n.count = 0
             /\ n.op = "get" => ~n.out.found
             /\ n.op = "recent" => Len(n.out) = 0
             /\ n.op \in {"export_json", "export_csv"} =>
                  (Len(n.out) = 0 /\ n.count = 0)
             /\ n.op = "stats" =>
                  /\ n.out.total = 0
                  /\ DOMAIN n.out.by_severity = {}
                  /\ DOMAIN n.out.by_product = {}

\* two rows purged, then the display id of one of them looked up in vain
C23_Witness ==
  /\ Len(calls) = 4
  /\ calls[3].op = "purge"
  /\ calls[3].count = 2
  /\ calls[4].op = "get"
  /\ calls[4].arg = DisplayId(IdA)
  /\ \E r \in calls[3].before : r.id = DisplayId(IdA)
  /\ ~calls[4].out.found

\* a purge of one row followed by a purge that returns 0
C23_WitnessTwice ==
  /\ Len(calls) = 3
  /\ calls[2].op = "purge" /\ calls[2].count = 1
  /\ calls[3].op = "purge" /\ calls[3].count = 0

\* the counts of a dict, added up
RECURSIVE SumCounts(_, _)
SumCounts(f, S) ==
  IF S = {} THEN 0
  ELSE LET x == CHOOSE y \in S : TRUE IN f[x] + SumCounts(f, S \ {x})

\* C24: the statistics of a scope (all rows, or a day) have for total the
\* number of rows in the scope, and the counts by severity and the counts by
\* product each add up to the total; a row is in the scope of a day exactly
\* when its created_timestamp is a timestamp of that day
C24_StatsAgree ==
  \A k \in CallsOf("stats") :
    LET c == calls[k]
        rows == IF c.arg = <<>> THEN c.before
                ELSE {r \in c.before :
                        /\ r.created_timestamp # NoTs
                        /\ r.created_timestamp.ok
                        /\ r.created_timestamp.s \div 86400 = c.arg[1]}
    IN  /\ c.out.total = Cardinality(rows)
        /\ SumCounts(c.out.by_severity, DOMAIN c.out.by_severity) = c.out.total
        /\ SumCounts(c.out.by_product, DOMAIN c.out.by_product) = c.out.total

\* all rows counted: two of them, one with severity null, in two groups
C24_Witness ==
  \E k \in CallsOf("stats") :
    /\ calls[k].arg = <<>>
    /\ calls[k].out.total = 2
    /\ Null \in DOMAIN calls[k].out.by_severity
    /\ Cardinality(DOMAIN calls[k].out.by_severity) = 2

\* the statistics of the second day count one of two rows
C24_WitnessDay ==
  \E k \in CallsOf("stats") :
    /\ calls[k].arg = <<1>>
    /\ calls[k].out.total = 1
    /\ Cardinality(calls[k].before) = 2

\* the creation time of a is not later than that of b; a row without a
\* created_timestamp counts as the earliest
NotLater(a, b) == a = NoTs \/ (b # NoTs /\ Instant(a) <= Instant(b))

\* out lists rows of table, each at most once, latest creation first
LatestFirst(out, table, key) ==
  /\ \A i \in 1..Len(out) : \E r \in table : r.short_id = out[i][key]
  /\ \A i, j \in 1..Len(out) :
       i < j => /\ out[i][key] # out[j][key]
                /\ NotLater(out[j].created, out[i].created)

\* the created_timestamp of each entry under the one name created
WithCreated(out, col) ==
  [i \in 1..Len(out) |-> [short_id |-> out[i].short_id, ID |-> out[i].short_id,
                          created |-> out[i][col]]]

\* C25: get_recent_alerts(limit) returns min(limit, rows) rows, none created
\* before a row it leaves out, latest creation first; the CSV and the JSON
\* export hold every row, latest creation first, and return the number of
\* rows
C25_RecentLatestFirst ==
  /\ \A k \in CallsOf("recent") :
       LET c == calls[k]
           out == WithCreated(c.out, "created_timestamp")
       IN  /\ Len(out) = Min(c.arg[1], Cardinality(c.before))
           /\ LatestFirst(out, c.before, "short_id")
           /\ \A r \in c.before :
                (\A i \in 1..Len(out) : out[i].short_id # r.short_id) =>
                  \A i \in 1..Len(out) :
                    NotLater(r.created_timestamp, out[i].created)
  /\ \A k \in CallsOf("export_csv") :
       LET c == calls[k]
           out == [i \in 1..Len(c.out) |->
                     [short_id |-> c.out[i].ID, created |-> c.out[i].Created]]
       IN  /\ c.count = Cardinality(c.before)
           /\ Len(out) = Cardinality(c.before)
           /\ LatestFirst(out, c.before, "short_id")
  /\ \A k \in CallsOf("export_json") :
       LET c == calls[k]
           out == [i \in 1..Len(c.out) |->
                     [short_id |-> DisplayId(FullId(json_loads(c.out[i]))),
                      created |-> json_loads(c.out[i]).created_timestamp]]
       IN  /\ c.count = Cardinality(c.before)
           /\ Len(out) = Cardinality(c.before)
           /\ \A i, j \in 1..Len(out) :
                i < j => NotLater(out[j].created, out[i].created)

-----------------------------------------------------------------------------
(* TalonState.load_config (config/settings.py 60-83), called once when the *)
(* program starts (main.py 37), on any configuration file.                 *)

\* connection entries in the file at most
MaxConfigEntries == 2

EntryB == [EntryA EXCEPT !.id = Str(<<"b">>)]
\* an entry without client_secret, and one whose created_at is no date
EntryNoSecret == [EntryB EXCEPT !.client_secret = Absent]
EntryBadDate == [EntryB EXCEPT !.created_at = Str(BadText)]
ConfigEntries == {EntryA, EntryB, EntryNoSecret, EntryBadDate}

\* the file: not there, there but no JSON ("text"), or a JSON object
ConfigFiles ==
  {[kind |-> k, connections |-> <<>>, active_id |-> Absent,
    poll_interval |-> Absent] : k \in {"missing", "text"}}
  \cup {[kind |-> "object", connections |-> cs, active_id |-> a,
         poll_interval |-> p] :
          cs \in SeqsUpTo(ConfigEntries, MaxConfigEntries),
          a \in {Absent, Str(<<"a">>)}, p \in {Absent, Num(30)}}

\* settings.py 71-77: the entry has the five keys and a created_at that
\* datetime.fromisoformat reads
EntryLoads(e) ==
  /\ \A key \in DOMAIN e : e[key] # Absent
  /\ e.created_at.k = "str"
  /\ e.created_at.s # BadText

\* settings.py 70-78: the connections appended before the loop ends or an
\* entry raises
RECURSIVE Appended(_)
Appended(cs) ==
  IF cs = <<>> \/ ~EntryLoads(cs[1]) THEN <<>>
  ELSE <<Connection(cs[1])>> \o Appended(Tail(cs))

\* settings.py 60-83: the state load_config leaves, and whether it warned
load_config(file) ==
  IF file.kind = "missing"
  THEN [connections |-> connections, active_id |-> active_id,
        poll_interval |-> poll_interval, warned |-> FALSE]
  ELSE IF file.kind = "text"
  THEN [connections |-> connections, active_id |-> active_id,
        poll_interval |-> poll_interval, warned |-> TRUE]
  ELSE IF \E i \in 1..Len(file.connections) : ~EntryLoads(file.connections[i])
  THEN [connections |-> connections \o Appended(file.connections),
        active_id |-> active_id, poll_interval |-> poll_interval,
        warned |-> TRUE]
  ELSE [connections |-> connections \o Appended(file.connections),
        active_id |-> IF file.active_id = Absent THEN Null ELSE file.active_id,
        poll_interval |-> IF file.poll_interval = Absent
                          THEN DefaultPollInterval ELSE file.poll_interval.n,
        warned |-> FALSE]

\* main.py 37: state.load_config() on the state just constructed
LoadConfig(file) ==
  /\ pc = "idle"
  /\ calls = <<>>
  /\ LET o == load_config(file)
     IN  /\ connections' = o.connections
         /\ active_id' = o.active_id
         /\ poll_interval' = o.poll_interval
         /\ calls' = <<[op |-> "load_config", file |-> file,
                        warned |-> o.warned, raised |-> FALSE]>>
  /\ UNCHANGED <<pc, exit, sessions, apiMode, alert_filter, since, seen,
                 emitted, ids, alerts, idx, max_created_seen, offset, chunk_i,
                 reqs, db, alert_id_cache, alert_stats, new_alerts_count,
                 reported, client, spinners>>
  /\ UNCHANGED authVars

NextConfig == \E file \in ConfigFiles : LoadConfig(file)

SpecConfig == InitFresh /\ [][NextConfig]_vars

\* the file cannot be read as a configuration: no JSON, or an entry with a
\* missing or an invalid field
MalformedConfig(file) ==
  \/ file.kind = "text"
  \/ \E i \in 1..Len(file.connections) :
       \/ \E key \in DOMAIN file.connections[i] :
            file.connections[i][key] = Absent
       \/ file.connections[i].created_at = Str(BadText)

\* C26: load_config never raises, and after a malformed configuration it has
\* warned and left no connection, no active profile and the default poll
\* interval
C26_MalformedLoadsNothing ==
  Called("load_config") =>
    /\ ~calls[1].raised
    /\ MalformedConfig(calls[1].file) =>
         /\ calls[1].warned
         /\ connections = <<>>
         /\ active_id = Null
         /\ poll_interval = DefaultPollInterval

----------------------------------------------------------------------------
(* A record that fails the filter *)

\* the for loop passes over the current record because the filter says no
FilterRejectStep ==
  /\ pc = "loop" /\ idx <= Len(alerts)
  /\ ~AlreadySeen(CurAid)
  /\ matches_filter(Cur, alert_filter) = "false"
  /\ pc' = "loop" /\ idx' = idx + 1

\* C27: a fetched record that fails the filter changes nothing: seen_ids, the
\* statistics, the output, the store, the count of new records, the
\* iteration's high-water mark and the watermark are as they were, so the
\* record is still unseen for a later iteration
C27_RejectedLeavesNoTrace ==
  [][FilterRejectStep =>
       /\ UNCHANGED <<seen, alert_stats, emitted, db, new_alerts_count>>
       /\ UNCHANGED <<max_created_seen, since>>
       /\ CurAid \notin seen']_vars

\* the first record of an iteration was rejected by the filter and the loop
\* has moved on to the second
C27_Witness ==
  /\ pc = "loop" /\ idx = 2 /\ Len(alerts) >= 2
  /\ matches_filter(alerts[1], alert_filter) = "false"
  /\ DisplayId(FullId(alerts[1])) \notin seen
  /\ alert_id_cache # <<>>

----------------------------------------------------------------------------
(* The watermark at the end of an iteration *)

\* the later of two creation times, as instants
Later(mx, t) ==
  IF HasTs(t) /\ (~HasTs(mx) \/ Instant(mx) < Instant(t)) THEN t ELSE mx

\* the creation times of the records accepted so far in the session
CreatedOfEmitted ==
  {pick_created_iso(emitted[j].alert) : j \in 1..Len(emitted)} \ {NoTs}

\* t is the creation time of the most recently created record accepted so far
MostRecentlyCreated(t) ==
  /\ t \in CreatedOfEmitted
  /\ \A u \in CreatedOfEmitted : Instant(u) <= Instant(t)

\* the for loop is over and the iteration goes to sleep
EndIterationStep == pc = "loop" /\ idx > Len(alerts) /\ pc' = "sleep"

\* a record has just been accepted: seen_ids takes its display id
AcceptStep == pc = "mark" /\ pc' = "loop"

\* C28: the iteration's high-water mark is the greatest creation time among
\* the records accepted in the iteration; an iteration that accepted a record
\* with a creation time ends with the watermark at that mark, which is the
\* creation time of the most recently created record accepted so far in the
\* session; every other step of a session leaves the watermark as it was
C28_WatermarkIsGreatest ==
  [][/\ AcceptStep =>
          max_created_seen' = Later(max_created_seen, pick_created_iso(Cur))
     /\ EndIterationStep /\ HasTs(max_created_seen) =>
          /\ since' = max_created_seen
          /\ MostRecentlyCreated(since')
     /\ EndIterationStep /\ ~HasTs(max_created_seen) => since' = since
     /\ ~EndIterationStep /\ pc # "idle" => since' = since]_vars

----------------------------------------------------------------------------
(* The de-duplication of the listed ids *)

\* the ids, as the API gave them, of the records accepted so far in the session
AcceptedIds == {FullId(emitted[j].alert) : j \in 1..Len(emitted)}

\* fetch_alerts has been called in a watch session and has not returned
FetchCalled == sessions > 0 /\ pc \in {"fetch", "fetch_retry"}

\* C29: fetch_alerts is never called with the id of a record accepted earlier
\* in the session (so it is not called at all when every listed id is such an
\* id)
C29_NoFetchOfAccepted ==
  FetchCalled => \A k \in 1..Len(ids) : ids[k] \notin AcceptedIds

----------------------------------------------------------------------------
(* The order in which one iteration processes the fetched records *)

\* how often record a occurs in sq
Occurrences(sq, a) == Cardinality({j \in 1..Len(sq) : sq[j] = a})

\* the same records, each as often
SameRecords(p, q) ==
  /\ Len(p) = Len(q)
  /\ \A j \in 1..Len(p) : Occurrences(p, p[j]) = Occurrences(q, p[j])

\* no record stands before one with an earlier best creation time; a record
\* without any creation time counts as the earliest
AscendingCreated(sq) ==
  \A i, j \in 1..Len(sq) :
    (/\ i < j
     /\ pick_created_iso(sq[i]).ok
     /\ pick_created_iso(sq[j]).ok)
      => Instant(pick_created_iso(sq[i])) <= Instant(pick_created_iso(sq[j]))

\* fetch_alerts has returned and the for loop begins
SortStep == sessions > 0 /\ pc = "fetched" /\ pc' = "loop"

\* the for loop moves from one record to the next
LoopStep == pc \in {"loop", "store", "mark"} /\ pc' \in {"loop", "store", "mark"}

\* C30: whatever order fetch_alerts returned them in, the records of one
\* iteration are processed one after the other in ascending order of their
\* best creation time
C30_ProcessedAscending ==
  [][/\ SortStep =>
          /\ SameRecords(alerts, alerts')
          /\ AscendingCreated(alerts')
          /\ idx' = 1
     /\ LoopStep =>
          /\ alerts' = alerts
          /\ idx' \in {idx, idx + 1}]_vars

----------------------------------------------------------------------------
(* Emission before the upsert *)

\* row r belongs to a record that the session has printed
EmittedRow(r) ==
  \E j \in 1..Len(emitted) :
    /\ emitted[j].aid = r.short_id
    /\ FullId(emitted[j].alert) = r.full_id
    /\ json_dumps(emitted[j].alert) = r.raw_data

\* store_alert raises and the session ends
StoreFailStep == pc = "store" /\ exit' = "error"

\* C31: a row is written only for a record that has been printed before, so
\* at every moment each row of the session belongs to an emitted record; an
\* upsert that fails leaves the printed output, which ends with the record,
\* as it was
C31_EmittedBeforeStored ==
  [][/\ \A r \in db' \ db : emitted' = emitted /\ EmittedRow(r)
     /\ \A r \in db' : EmittedRow(r)'
     /\ StoreFailStep =>
          /\ emitted' = emitted
          /\ emitted # <<>>
          /\ emitted[Len(emitted)] = [aid |-> CurAid, alert |-> Cur]]_vars

\* the upsert of a printed record has just written its row
C31_Witness ==
  /\ pc = "mark"
  /\ emitted # <<>>
  /\ \E r \in db : r.short_id = CurAid /\ r.raw_data = json_dumps(Cur)

\* the upsert of a printed record has failed: the line is out, the row is not
\* there
C31_WitnessFailed ==
  /\ exit = "error"
  /\ emitted # <<>>
  /\ \A r \in db : r.short_id # emitted[Len(emitted)].aid

----------------------------------------------------------------------------
(* The count of new records, session by session *)

\* run or connect starts a watch session
SessionStartStep == pc = "idle" /\ pc' # "idle" /\ sessions' = sessions + 1

\* store_alert has returned to the loop
UpsertStep == pc = "store" /\ pc' = "mark"

\* C32: the counter is zero when a session starts, whatever way the session
\* before it ended; during the session it goes up by one with every upsert
\* that returns was_new = true and with nothing else, so that the count
\* reported at the stop is the number of those upserts
C32_CountIsPerSession ==
  [][/\ SessionStartStep => new_alerts_count = 0 /\ new_alerts_count' = 0
     /\ UpsertStep =>
          new_alerts_count' =
            new_alerts_count
              + (IF store_alert(db, Cur, CurAid, CurFull).is_new THEN 1 ELSE 0)
     /\ (~UpsertStep /\ ~CancelStep) => new_alerts_count' = new_alerts_count
     /\ CancelStep =>
          /\ new_alerts_count <= StoredThisSession
          /\ new_alerts_count > 0 => reported' = new_alerts_count]_vars

----------------------------------------------------------------------------
(* Rows and ids of the alerts table *)

\* every display id and every full id is carried by at most one row
OneRowPerId(table) ==
  \A r1, r2 \in table : (r1.id = r2.id \/ r1.full_id = r2.full_id) => r1 = r2

\* C33: after every store_alert call each display id and each full id is in
\* at most one row, the table has not lost a row, and it has one row more
\* exactly when the call returned True
C33_RowCountFollowsWasNew ==
  \A i \in 1..Len(calls) :
    calls[i].op = "store" =>
      /\ OneRowPerId(calls[i].after)
      /\ Cardinality(calls[i].after) >= Cardinality(calls[i].before)
      /\ Cardinality(calls[i].after) =
           Cardinality(calls[i].before) + (IF calls[i].ret THEN 1 ELSE 0)

----------------------------------------------------------------------------
(* The token at the time of each request (api/client.py 62-145):           *)
(* query_alert_ids and fetch_alerts called on a connected client while the *)
(* clock runs: every request takes time, every 429 is slept on, and time   *)
(* passes between the calls.                                               *)

\* seconds a request may take (timeout=60), seconds between two calls, pages
\* a listing is followed over, and the time the clock is followed to
SendSeconds == {0, 30}
IdleSeconds == {1739}
SendPagesMax == 2
SendClockEnd == StartTime + 1830
SendIdLists == {<<IdA>>, <<IdA, IdB, IdC>>}

\* what the token endpoint answers to a refresh: a token, or 401
GoodTokenResponse ==
  [status |-> 200,
   body |-> [json |-> "object", access_token |-> Str(TokenB),
             expires_in |-> Absent]]
SendTokenResponses ==
  {GoodTokenResponse,
   [status |-> 401,
    body |-> [json |-> "text", access_token |-> Absent, expires_in |-> Absent]]}

\* the request that has just been answered: its kind and the attempt (1: first
\* send of the page or chunk; a run of 429 answers counts as one retry)
Sent(kind, attempt) == <<[kind |-> kind, attempt |-> attempt]>>

sendFrame ==
  <<exit, sessions, apiMode, alert_filter, since, seen, emitted, alerts, idx,
    max_created_seen, db, alert_id_cache, alert_stats, new_alerts_count,
    reported, calls, connected, configVars>>

\* time passes at the prompt
Wait(d) ==
  /\ pc = "idle"
  /\ now + d <= SendClockEnd
  /\ now' = now + d
  /\ UNCHANGED <<pc, offset, chunk_i, ids, reqs, tok, exp, auth_header>>
  /\ UNCHANGED sendFrame

\* client.py 62-76: query_alert_ids is entered
QueryAlertIds ==
  /\ pc = "idle"
  /\ now < SendClockEnd
  /\ pc' = "q_token"
  /\ offset' = 0
  /\ ids' = <<>>
  /\ reqs' = <<>>
  /\ UNCHANGED <<chunk_i, tok, exp, auth_header, now>>
  /\ UNCHANGED sendFrame

\* client.py 106-117: fetch_alerts is entered with ids
FetchAlerts(id_list) ==
  /\ pc = "idle"
  /\ now < SendClockEnd
  /\ pc' = "f_token"
  /\ ids' = id_list
  /\ chunk_i' = 0
  /\ reqs' = <<>>
  /\ UNCHANGED <<offset, tok, exp, auth_header, now>>
  /\ UNCHANGED sendFrame

\* client.py 67 and 121: self.token() before the first page and before the
\* first POST of every chunk; a failed exchange is raised to the caller
EnsureToken(resp) ==
  /\ pc \in {"q_token", "f_token"}
  /\ IF is_token_valid
     THEN /\ resp = GoodTokenResponse
          /\ pc' = IF pc = "q_token" THEN "q_send" ELSE "f_send"
          /\ UNCHANGED <<tok, exp, auth_header>>
     ELSE LET o == Exchanged(resp, now)
          IN  /\ tok' = o.tok
              /\ exp' = o.exp
              /\ auth_header' = o.auth_header
              /\ pc' = IF o.r # "ok" THEN "idle"
                       ELSE IF pc = "q_token" THEN "q_send" ELSE "f_send"
  /\ UNCHANGED <<offset, chunk_i, ids, reqs, now>>
  /\ UNCHANGED sendFrame

\* how often the page at hand has been sent
SendAttempt == IF reqs = <<>> THEN 1 ELSE 2

\* client.py 78-88: the GET of a page is answered 429: sleep, same page again
GetPage429(h, d) ==
  /\ pc = "q_send"
  /\ now < SendClockEnd
  /\ now' = now + d + RetrySleep(h)
  /\ reqs' = Sent("list", SendAttempt)
  /\ UNCHANGED <<pc, offset, chunk_i, ids, tok, exp, auth_header>>
  /\ UNCHANGED sendFrame

\* client.py 78-104: the GET of a page is answered 200 (more pages follow or
\* the listing is over) or with an error status, which is raised
GetPage(answer, d) ==
  /\ pc = "q_send"
  /\ now < SendClockEnd
  /\ answer = "more" => offset + 1 < SendPagesMax
  /\ now' = now + d
  /\ pc' = IF answer = "more" THEN "q_send" ELSE "idle"
  /\ offset' = IF answer = "more" THEN offset + 1 ELSE offset
  /\ reqs' = IF answer = "more" THEN <<>> ELSE Sent("list", SendAttempt)
  /\ UNCHANGED <<chunk_i, ids, tok, exp, auth_header>>
  /\ UNCHANGED sendFrame

\* after the POST of a chunk has been answered 200: the next chunk, or return
ChunkDone ==
  /\ IF chunk_i + ChunkLen < Len(ids)
     THEN /\ chunk_i' = chunk_i + ChunkLen
          /\ pc' = "f_token"
     ELSE /\ chunk_i' = chunk_i
          /\ pc' = "idle"

\* client.py 123-130: the POST of a chunk is answered 429: sleep
PostChunk429(h, d) ==
  /\ pc = "f_send"
  /\ now < SendClockEnd
  /\ now' = now + d + RetrySleep(h)
  /\ pc' = "f_resend"
  /\ reqs' = Sent("fetch", 1)
  /\ UNCHANGED <<offset, chunk_i, ids, tok, exp, auth_header>>
  /\ UNCHANGED sendFrame

\* client.py 123-144: the POST of a chunk, or the POST repeated after the
\* sleep (131-135), is answered 200 or with a status that is raised
PostChunk(answer, d) ==
  /\ pc \in {"f_send", "f_resend"}
  /\ now < SendClockEnd
  /\ now' = now + d
  /\ reqs' = Sent("fetch", IF pc = "f_send" THEN 1 ELSE 2)
  /\ IF answer = "ok" THEN ChunkDone
     ELSE pc' = "idle" /\ chunk_i' = chunk_i
  /\ UNCHANGED <<offset, ids, tok, exp, auth_header>>
  /\ UNCHANGED sendFrame

NextSend ==
  \/ \E d \in IdleSeconds : Wait(d)
  \/ QueryAlertIds
  \/ \E id_list \in SendIdLists : FetchAlerts(id_list)
  \/ \E resp \in SendTokenResponses : EnsureToken(resp)
  \/ \E h \in RetryAfterValues, d \in SendSeconds : GetPage429(h, d)
  \/ \E answer \in {"more", "last", "error"}, d \in SendSeconds :
       GetPage(answer, d)
  \/ \E h \in RetryAfterValues, d \in SendSeconds : PostChunk429(h, d)
  \/ \E answer \in {"ok", "error"}, d \in SendSeconds : PostChunk(answer, d)

SpecSend == Init /\ [][NextSend]_vars

\* a request is about to go out
Sending == pc \in {"q_send", "f_send", "f_resend"}

\* C34: every GET of a page and every POST of a chunk, the pages after the
\* first and the requests repeated after a 429 sleep among them, goes out
\* while the token is valid: present, and the time before the expiry less
\* 60 s
C34_RequestsUnderValidToken == Sending => is_token_valid

----------------------------------------------------------------------------
(* Output, seen_ids and statistics at the iteration boundaries *)

\* the loop is between two iterations: asleep after one that ran to its end,
\* or backing off after one that failed in the client
IterationBoundary == pc \in {"sleep", "backoff"}

\* C35: at every iteration boundary of the first session after the start of
\* the shell (statistics at zero) the records printed, the display ids in
\* seen_ids and the total of the statistics are equal in number, and
\* seen_ids holds exactly the display ids of the printed records
C35_EmittedSeenStatsAgree ==
  (IterationBoundary /\ sessions = 1) =>
    /\ Len(emitted) = Cardinality(seen)
    /\ alert_stats.total_alerts = Len(emitted)
    /\ seen = {emitted[j].aid : j \in 1..Len(emitted)}

\* two records have been accepted and the loop sleeps
C35_Witness ==
  /\ pc = "sleep" /\ sessions = 1
  /\ Len(emitted) = 2
  /\ alert_stats.total_alerts = 2

----------------------------------------------------------------------------
(* AlertStats on its own (models/filters.py 28-53): add_alert and reset    *)
(* called in any order with any record.                                    *)

\* adds followed without a reset at most
MaxStatsTotal == 4

\* a reset that zeroes the total and keeps the two mappings
reset_total_only(st) == [st EXCEPT !.total_alerts = 0]

\* filters.py 48-53 (last_reset, a time stamp, is read by nothing)
reset(st) ==
  [total_alerts |-> 0, alerts_by_severity |-> <<>>, alerts_by_product |-> <<>>]

\* alert_stats.add_alert(alert)
AddAlert(alert) ==
  /\ pc = "idle"
  /\ alert_stats.total_alerts < MaxStatsTotal
  /\ alert_stats' = add_alert(alert_stats, alert)
  /\ calls' = <<[op |-> "add_alert", alert |-> alert]>>
  /\ UNCHANGED <<pc, exit, sessions, apiMode, alert_filter, since, seen,
                 emitted, ids, alerts, idx, max_created_seen, offset, chunk_i,
                 reqs, db, alert_id_cache, new_alerts_count, reported,
                 authVars, configVars>>

\* alert_stats.reset()
ResetStats ==
  /\ pc = "idle"
  /\ alert_stats' = reset(alert_stats)
  /\ calls' = <<[op |-> "reset", alert |-> BlankAlert]>>
  /\ UNCHANGED <<pc, exit, sessions, apiMode, alert_filter, since, seen,
                 emitted, ids, alerts, idx, max_created_seen, offset, chunk_i,
                 reqs, db, alert_id_cache, new_alerts_count, reported,
                 authVars, configVars>>

NextStats ==
  \/ \E a \in Alerts : AddAlert(a)
  \/ ResetStats

SpecStats == Init /\ [][NextStats]_vars

\* the count of key in a dict, 0 for a key it does not hold
CountOf(d, key) == IF key \in DOMAIN d THEN d[key] ELSE 0

\* dict d1 is d0 with the count of exactly one key raised by one
OneBucketUp(d0, d1) ==
  \E key \in DOMAIN d1 :
    /\ d1[key] = CountOf(d0, key) + 1
    /\ DOMAIN d1 = DOMAIN d0 \cup {key}
    /\ \A k \in DOMAIN d0 : k # key => d1[k] = d0[k]

\* the total is the sum of either mapping
StatsBalanced(st) ==
  /\ SumCounts(st.alerts_by_severity, DOMAIN st.alerts_by_severity)
       = st.total_alerts
  /\ SumCounts(st.alerts_by_product, DOMAIN st.alerts_by_product)
       = st.total_alerts

\* C36: after every add_alert and reset the total is the sum of the counts
\* by severity and the sum of the counts by product; add_alert raises the
\* total, one severity bucket and one product bucket by one each; reset sets
\* the total to 0 and empties both mappings
C36_StatsBalanced ==
  [][/\ StatsBalanced(alert_stats')
     /\ calls'[1].op = "add_alert" =>
          /\ alert_stats'.total_alerts = alert_stats.total_alerts + 1
          /\ OneBucketUp(alert_stats.alerts_by_severity,
                         alert_stats'.alerts_by_severity)
          /\ OneBucketUp(alert_stats.alerts_by_product,
                         alert_stats'.alerts_by_product)
     /\ calls'[1].op = "reset" =>
          /\ alert_stats'.total_alerts = 0
          /\ DOMAIN alert_stats'.alerts_by_severity = {}
          /\ DOMAIN alert_stats'.alerts_by_product = {}]_vars

\* four records counted in three severity buckets and three product buckets,
\* the number 70 and the text "70" in one bucket
C36_Witness ==
  /\ Called("add_alert")
  /\ alert_stats.total_alerts = 4
  /\ Cardinality(DOMAIN alert_stats.alerts_by_severity) = 3
  /\ Cardinality(DOMAIN alert_stats.alerts_by_product) = 3
  /\ CountOf(alert_stats.alerts_by_severity, <<"7", "0">>) = 2

\* a reset after records were counted
C36_WitnessReset ==
  /\ Called("reset")
  /\ alert_stats = EmptyStats

----------------------------------------------------------------------------
(* matches_filter and the status option (config/settings.py 85-115;        *)
(* models/filters.py 11-18; the option is set at ui/repl.py 359).          *)

\* what the status option of a filter may hold: None or a text
StatusOptions == {<<>>, <<"n", "e", "w">>, <<"c", "l", "o", "s", "e", "d">>}
\* the status of a record
RecordStatuses == {Absent, Null, Str(<<"n", "e", "w">>)}

StatusAlerts ==
  {[a EXCEPT !.status = s] : a \in Alerts, s \in RecordStatuses}
StatusFilters ==
  {[f EXCEPT !.status = s] : f \in MatchFilters, s \in StatusOptions}

NextMatchStatus ==
  \E a \in StatusAlerts, f \in StatusFilters : MatchCall(a, f)

SpecMatchStatus == Init /\ [][NextMatchStatus]_vars

\* C37: what matches_filter returns for a record and a filter is what it
\* returns for the same record and the same filter with any other status
\* option
C37_StatusIgnored ==
  Called("matches") =>
    \A s \in StatusOptions :
      matches_filter(calls[1].alert, [calls[1].filter EXCEPT !.status = s])
        = calls[1].ret

\* a filter with status "closed" accepts a record whose status is "new"
C37_Witness ==
  /\ Called("matches")
  /\ calls[1].filter.status = <<"c", "l", "o", "s", "e", "d">>
  /\ calls[1].alert.status = Str(<<"n", "e", "w">>)
  /\ calls[1].filter.severity_min # <<>>
  /\ calls[1].ret = "true"

----------------------------------------------------------------------------
(* The sleep on a 429 (api/client.py 86-88 and 129-130): the Retry-After   *)
(* header as the text the API sent, read by int(...) or 2.                 *)

\* 429 answers followed
MaxRetryCalls == 2

\* Retry-After: absent, seconds in several spellings, an empty value and an
\* HTTP date
RetryAfterHeaders ==
  {Absent, Str(<<"0">>), Str(<<"0", "0">>), Str(<<"3">>), Str(<<"0", "3">>),
   Str(<<"1", "2", "0">>), Str(<<>>), Str(<<"W", "e", "d">>)}

\* int(r.headers.get("Retry-After", "2")) without the `or 2`
retry_after_no_default(header) ==
  LET p == IntOf(IF header = Absent THEN Str(<<"2">>) ELSE header)
  IN  IF p.r # "ok" THEN [r |-> p.r, slept |-> 0]
      ELSE [r |-> "ok", slept |-> p.n]

\* int(r.headers.get("Retry-After", "2")) or 2: the seconds slept, or the
\* exception that int() raises
retry_after_seconds(header) ==
  LET p == IntOf(IF header = Absent THEN Str(<<"2">>) ELSE header)
  IN  IF p.r # "ok" THEN [r |-> p.r, slept |-> 0]
      ELSE [r |-> "ok", slept |-> IF p.n = 0 THEN DefaultRetryAfter ELSE p.n]

RetryRecord(op, header) ==
  [op |-> op, header |-> header, r |-> retry_after_seconds(header).r,
   slept |-> retry_after_seconds(header).slept]

\* query_alert_ids is answered 429 (client.py 86-88)
ListAnswered429(header) ==
  /\ pc = "idle"
  /\ Len(calls) < MaxRetryCalls
  /\ calls' = Append(calls, RetryRecord("list", header))
  /\ UNCHANGED <<db>>
  /\ UNCHANGED watchVars

\* fetch_alerts is answered 429 to the first POST of a chunk (client.py
\* 129-130)
FetchAnswered429(header) ==
  /\ pc = "idle"
  /\ Len(calls) < MaxRetryCalls
  /\ calls' = Append(calls, RetryRecord("fetch", header))
  /\ UNCHANGED <<db>>
  /\ UNCHANGED watchVars

NextRetry ==
  \/ \E header \in RetryAfterHeaders : ListAnswered429(header)
  \/ \E header \in RetryAfterHeaders : FetchAnswered429(header)

SpecRetry == Init /\ [][NextRetry]_vars

\* the header holds a number of seconds: decimal digits
HoldsSeconds(header) ==
  /\ header.k = "str" /\ header.s # <<>>
  /\ \A i \in 1..Len(header.s) : IsDigit(header.s[i])

\* C38: on a 429, in query_alert_ids and in fetch_alerts alike, the client
\* sleeps the seconds of Retry-After when the header holds a number other
\* than zero and 2 seconds when the header is absent or holds zero; whatever
\* the header holds, a sleep is never one of 0 seconds
C38_RetrySleep ==
  \A i \in 1..Len(calls) :
    LET c == calls[i] IN
    /\ (HoldsSeconds(c.header) /\ ParseNat(c.header.s) # 0)
         => (c.r = "ok" /\ c.slept = ParseNat(c.header.s))
    /\ (c.header = Absent \/ (HoldsSeconds(c.header) /\ ParseNat(c.header.s) = 0))
         => (c.r = "ok" /\ c.slept = 2)
    /\ c.r = "ok" => c.slept > 0
    /\ \A j \in 1..Len(calls) :
         calls[j].header = c.header =>
           (calls[j].r = c.r /\ calls[j].slept = c.slept)

\* a listing answered 429 with Retry-After: 0 and a fetch answered 429 with
\* Retry-After: 120
C38_Witness ==
  /\ Len(calls) = 2
  /\ calls[1].op = "list" /\ calls[1].header = Str(<<"0">>)
  /\ calls[1].slept = 2
  /\ calls[2].op = "fetch" /\ calls[2].header = Str(<<"1", "2", "0">>)
  /\ calls[2].slept = 120

-----------------------------------------------------------------------------
(* The shell's commands on profiles: keys create, keys list, keys remove,
   connect and run (repl.py 186-265, 409-460) *)

MaxKeys == 2

\* display.py 51-54: ten random characters; two draws may be equal
ConnIds == {Str(<<"a">>), Str(<<"b">>)}

\* what the user types at a prompt of keys create, already stripped
TypedIds == {Str(<<>>), Str(<<"i">>)}
TypedSecrets == {Str(<<"s">>), Str(<<"t">>)}
TypedUrls == {Str(<<"u">>)}

\* the position of the active connection in the list, 0 when there is none
ActiveIndex ==
  IF active = <<>> THEN 0
  ELSE CHOOSE i \in 1..Len(connections) :
         /\ connections[i].id = active_id
         /\ \A j \in 1..(i - 1) : connections[j].id # active_id

\* repl.py 186-208: keys create
keys_create(cid, sec, burl, conn_id) ==
  /\ pc = "idle"
  /\ Len(connections) < MaxKeys
  /\ IF ~Truthy(cid) \/ ~Truthy(sec) \/ ~Truthy(burl)
     THEN /\ calls' = <<[op |-> "keys_create", created |-> FALSE,
                         i |-> 0, n |-> Len(connections)]>>
          /\ UNCHANGED <<connections, active_id, client, connected, tok, exp,
                         auth_header>>
     ELSE /\ connections' =
               Append(connections,
                      [id |-> conn_id, client_id |-> cid,
                       client_secret |-> sec, base_url |-> burl,
                       created_at |-> GoodDate])
          /\ active_id' = conn_id
          /\ Disconnected
          /\ calls' = <<[op |-> "keys_create", created |-> TRUE,
                         i |-> Len(connections) + 1, n |-> Len(connections)]>>
  /\ UNCHANGED keysFrame

\* repl.py 239-265: keys remove, with the number typed
keys_remove(i) ==
  /\ pc = "idle"
  /\ connections # <<>>
  /\ IF i < 1 \/ i > Len(connections)
     THEN /\ calls' = <<[op |-> "keys_remove", removed |-> FALSE, i |-> i,
                         n |-> Len(connections)]>>
          /\ UNCHANGED <<connections, active_id, client, connected, tok, exp,
                         auth_header>>
     ELSE /\ connections' =
               SubSeq(connections, 1, i - 1)
                 \o SubSeq(connections, i + 1, Len(connections))
          /\ IF active_id = connections[i].id
             THEN active_id' = Null /\ Disconnected
             ELSE UNCHANGED <<active_id, client, connected, tok, exp,
                              auth_header>>
          /\ calls' = <<[op |-> "keys_remove", removed |-> TRUE, i |-> i,
                         n |-> Len(connections)]>>
  /\ UNCHANGED keysFrame

\* repl.py 454-460: run
cmd_run ==
  /\ pc = "idle"
  /\ sessions < MaxConnects
  /\ IF ~connected \/ client = <<>>
     THEN /\ calls' = <<[op |-> "run", started |-> FALSE, i |-> 0,
                         n |-> sessions]>>
          /\ WatchNotStarted
     ELSE /\ calls' = <<[op |-> "run", started |-> TRUE, i |-> 0,
                         n |-> sessions]>>
          /\ WatchStarts
  /\ UNCHANGED <<apiMode, alert_filter, db, alert_id_cache, alert_stats,
                 new_alerts_count, reported>>
  /\ UNCHANGED authVars
  /\ UNCHANGED configVars

NextKeys ==
  \/ \E cid \in TypedIds, sec \in TypedSecrets, burl \in TypedUrls,
        conn_id \in ConnIds : keys_create(cid, sec, burl, conn_id)
  \/ \E i \in 1..MaxKeys : keys_list(i)
  \/ \E i \in 0..(MaxKeys + 1) : keys_remove(i)
  \/ \E resp \in SendTokenResponses \cup {NoResponse} : cmd_connect(resp, 0)
  \/ cmd_run
  \/ \E t \in ClockReadings : Tick(t)
  \/ Cancel

SpecKeys == InitFresh /\ [][NextKeys]_vars

\* connected only with a client built from the active profile
Linked ==
  connected =>
    /\ client # <<>>
    /\ active # <<>>
    /\ client = ClientFor(active[1])

KeysStep(op) == calls' # calls /\ calls'[1].op = op

CreateStep == KeysStep("keys_create") /\ calls'[1].created

\* keys list picks an entry that is not the active profile
SelectOtherStep ==
  /\ KeysStep("keys_list")
  /\ \E i \in 1..Len(connections) :
       /\ i # ActiveIndex
       /\ keys_list(i)

\* keys remove takes the active profile out of the list
RemoveActiveStep ==
  /\ KeysStep("keys_remove")
  /\ calls'[1].removed
  /\ calls'[1].i = ActiveIndex

RunStartsStep == KeysStep("run") /\ calls'[1].started

Dropped == ~connected' /\ client' = <<>>

\* C39: through every sequence of keys create, keys list, keys remove,
\* connect and run, the shell is connected only while it holds a client whose
\* client id, secret and base URL are those of the active profile; creating a
\* profile, selecting a profile other than the active one, and removing the
\* active profile each leave the shell not connected and without a client;
\* run starts a watcher only when the shell is connected and holds a client
C39_ConnectedMeansActiveClient ==
  [][/\ Linked
     /\ Linked'
     /\ CreateStep => Dropped
     /\ SelectOtherStep => Dropped
     /\ RemoveActiveStep => Dropped
     /\ RunStartsStep => (connected /\ client # <<>>)]_vars

-----------------------------------------------------------------------------
(* connect step by step, with the thread of its spinner
   (utils/spinner.py 25-57; repl.py 409-451) *)

MaxSpinners == 2

\* spinner.py 23: the number of FRAMES the thread cycles through
FramesLen == 10

\* spinner.py 25-29, 44-49: TqdmSpinner(...) after start(): the Event is
\* clear and the thread runs
StartedSpinner == [stop |-> FALSE, thr |-> "running", frame |-> 0]

\* where the main thread is between spinner.start() and the end of the last
\* spinner.stop(): in client.token(), or in the join of stop() after the
\* exchange succeeded or failed
ExchangePcs == {"token", "join_ok", "join_fail"}

watchLocals ==
  <<exit, sessions, since, seen, emitted, ids, alerts, idx, max_created_seen,
    offset, chunk_i, reqs>>

spinFrame ==
  <<apiMode, alert_filter, db, alert_id_cache, alert_stats, new_alerts_count,
    reported, calls, now, connections, active_id, poll_interval>>

\* repl.py 411-428: connect up to the call of client.token()
connect_begin ==
  /\ pc = "idle"
  /\ sessions < MaxConnects
  /\ active # <<>>
  /\ LET kept == client = ClientFor(active[1])
     IN  /\ client' = ClientFor(active[1])
         /\ IF kept /\ is_token_valid
            THEN /\ connected' = TRUE
                 /\ WatchStarts
                 /\ UNCHANGED <<tok, exp, auth_header, spinners>>
            ELSE /\ Len(spinners) < MaxSpinners
                 /\ spinners' = Append(spinners, StartedSpinner)
                 /\ pc' = "token"
                 /\ tok' = IF kept THEN tok ELSE Null
                 /\ exp' = IF kept THEN exp ELSE 0
                 /\ auth_header' = IF kept THEN auth_header ELSE Absent
                 /\ UNCHANGED connected
                 /\ UNCHANGED watchLocals
  /\ UNCHANGED spinFrame

\* spinner.py 51-52: self._stop.set(), on the spinner of this connect
StopSet == [spinners EXCEPT ![Len(spinners)].stop = TRUE]

\* repl.py 429-440: client.token() returns or raises an Exception, and
\* spinner.stop() is called: the flag is set and the join begins
token_returns(resp) ==
  /\ pc = "token"
  /\ LET o == Exchanged(resp, now)
     IN  /\ tok' = o.tok
         /\ exp' = o.exp
         /\ auth_header' = o.auth_header
         /\ pc' = IF o.r = "ok" THEN "join_ok" ELSE "join_fail"
  /\ spinners' = StopSet
  /\ UNCHANGED <<connected, client>>
  /\ UNCHANGED watchLocals
  /\ UNCHANGED spinFrame

\* spinner.py 53-54, repl.py 433-451: self._thr.join(timeout=2.0) returns,
\* the thread ended or not; then "Auth failure" and return, or the watcher
join_returns ==
  /\ pc \in {"join_ok", "join_fail"}
  /\ IF pc = "join_ok"
     THEN /\ connected' = TRUE
          /\ WatchStarts
     ELSE /\ pc' = "idle"
          /\ UNCHANGED connected
          /\ UNCHANGED watchLocals
  /\ UNCHANGED <<tok, exp, auth_header, client, spinners>>
  /\ UNCHANGED spinFrame

\* Ctrl-C while the main thread is in client.token() or in the join:
\* KeyboardInterrupt is no Exception, so neither handler of 432-439 runs;
\* it is caught in root_loop (130-132), which shows the prompt again
connect_interrupted ==
  /\ pc \in ExchangePcs
  /\ pc' = "idle"
  /\ UNCHANGED <<tok, exp, auth_header, client, spinners, connected>>
  /\ UNCHANGED watchLocals
  /\ UNCHANGED spinFrame

\* spinner.py 31-42: one turn of the loop of thread i: it ends when the
\* flag is set, and draws the next frame otherwise
spinner_run(i) ==
  /\ i \in 1..Len(spinners)
  /\ spinners[i].thr = "running"
  /\ spinners' =
       IF spinners[i].stop
       THEN [spinners EXCEPT ![i].thr = "ended"]
       ELSE [spinners EXCEPT ![i].frame = (@ + 1) % FramesLen]
  /\ UNCHANGED <<pc, tok, exp, auth_header, client, connected>>
  /\ UNCHANGED watchLocals
  /\ UNCHANGED spinFrame

\* repl.py 595-599: Ctrl-C while the watcher runs
watch_interrupted == pc \notin ExchangePcs /\ Cancel

NextSpin ==
  \/ connect_begin
  \/ \E resp \in SendTokenResponses : token_returns(resp)
  \/ join_returns
  \/ connect_interrupted
  \/ \E i \in 1..MaxSpinners : spinner_run(i)
  \/ watch_interrupted

\* the threads are scheduled as long as the process runs
SpecSpin ==
  /\ InitShell
  /\ [][NextSpin]_vars
  /\ \A i \in 1..MaxSpinners : WF_vars(spinner_run(i))

ThreadStep == \E i \in 1..MaxSpinners : spinner_run(i)

\* everything but the spinners
mainState ==
  <<pc, exit, sessions, apiMode, alert_filter, since, seen, emitted, ids,
    alerts, idx, max_created_seen, offset, chunk_i, reqs, db,
    alert_id_cache, alert_stats, new_alerts_count, reported, calls,
    tok, exp, auth_header, now, connected, connections, active_id,
    poll_interval, client>>

\* the main thread touches a spinner that exists only by setting its flag
OnlyFlagSet ==
  \A i \in 1..Len(spinners) :
    /\ spinners'[i].thr = spinners[i].thr
    /\ spinners'[i].frame = spinners[i].frame
    /\ spinners[i].stop => spinners'[i].stop

\* control goes from the token exchange to the prompt or to the watcher
LeavesExchange == pc \in ExchangePcs /\ pc' \notin ExchangePcs

\* C40: the spinner thread changes nothing of the poller, the client or the
\* shell, and the main thread acts on a running spinner only by setting its
\* stop flag; whenever control leaves the token exchange of connect, by
\* success, by an error or by an interrupt, the stop flag of its spinner is
\* set; and a spinner whose flag is set eventually has its thread ended
C40_SpinnerStopped ==
  /\ [][/\ ThreadStep => UNCHANGED mainState
        /\ ~ThreadStep => OnlyFlagSet
        /\ LeavesExchange => spinners'[Len(spinners')].stop]_vars
  /\ \A i \in 1..MaxSpinners :
       (i <= Len(spinners) /\ spinners[i].stop)
         ~> (i <= Len(spinners) /\ spinners[i].thr = "ended")

====
